---------------------------- MODULE Spec2Model ----------------------------
(***************************************************************************)
(* AVLTreeCLI: the AVL tree engine (avltreecli/avl_tree.py) and the        *)
(* command session built on it (avltreecli/cli.py).                        *)
(*                                                                         *)
(* A Node object is a record [value, left, right, height]; a missing child *)
(* (Python None) is the empty tuple.  The Python code mutates nodes in     *)
(* place; here every function returns the subtree as it stands after the   *)
(* in-place assignments it made.  A function that can raise returns        *)
(* [raised, tree]: when raised is TRUE, tree is the in-place state of the  *)
(* subtree it was called on at the moment the exception left it; when      *)
(* raised is FALSE, tree is the returned node.  Object identity of nodes   *)
(* inside one tree is the position the descent by value reaches.           *)
(***************************************************************************)
EXTENDS Integers, Sequences, FiniteSets, TLC

VARIABLES
    root,      \* AVLTree.root of an AVLTree driven through insert/delete; in a
               \* session, the AVLTree given the values of its a / d commands
    tree,      \* AVLTreeCLI.tree.root, the tree of the command session
    mode,      \* AVLTreeCLI.mode
    present,   \* history: values inserted into root and not since deleted
    auto_only, \* history: every command since the session tree was created
               \*          empty was handled in automatic mode
    last       \* history: the last call or command and how it ended

vars == <<root, tree, mode, present, auto_only, last>>

\* ------------------------------------------------------------------ bounds
\* values offered to AVLTree.insert / AVLTree.delete
MaxValEngine == 9
\* values offered to the a / d / rr / rl commands of a full session
MaxValCLI == 6
\* values offered to the a / d commands of a session kept in automatic mode
MaxValAuto == 8
\* how many of the pending values of Script the next "a" may choose from
ScriptWindow == 2
\* how many of the pending values of PracticeScript the next "a" may choose
\* from
PracticeWindow == 1
\* values offered to AVLTree.insert in a run of consecutive values
MaxValSeq == 15
\* values offered to AVLTree.insert / AVLTree.delete between traversals
MaxValTrav == 7
\* values offered to the commands and queries of a session with queries
MaxValQuery == 5
\* largest digit typed in the argument of a command line
MaxDigitInput == 1
\* rotations issued while following the hints of practice mode
MaxHintRotations == 6
\* iterations of the automatic balancing loop that are followed
MaxLoopIterations == 8
\* values 1..MaxValRebalance given to insert / delete when the rebalancing
\* steps inside one call are followed
MaxValRebalance == 8
\* values 1..MaxValObjects typed in a session whose commands are followed on
\* the Node objects
MaxValObjects == 5
\* how many of the pending values of a script of HeightScripts the next
\* insert may choose from
HeightWindow == 2

\* ------------------------------------------------------------------ Node
None == <<>>

Node(value) == [value |-> value, left |-> None, right |-> None, height |-> 1]

Max(a, b) == IF a >= b THEN a ELSE b

Abs(a) == IF a >= 0 THEN a ELSE 0 - a

\* ------------------------------------------------------------- AVLTree
get_height(node) == IF node # None THEN node.height ELSE 0

get_balance(node) ==
    IF node # None THEN get_height(node.left) - get_height(node.right) ELSE 0

\* left_rotate with the height updates left out
left_rotate_no_heights(z) ==
    LET y == z.right
        T2 == y.left
    IN  [y EXCEPT !.left = [z EXCEPT !.right = T2]]

\* left_rotate that recomputes y's height before z's
left_rotate_y_first(z) ==
    LET y == z.right
        T2 == y.left
        z1 == [z EXCEPT !.right = T2]
        y1 == [y EXCEPT !.left = z1]
        yh == 1 + Max(get_height(y1.left), get_height(y1.right))
        z2 == [z1 EXCEPT !.height =
                   1 + Max(get_height(z1.left), get_height(z1.right))]
    IN  [y EXCEPT !.left = z2, !.height = yh]

left_rotate(z) ==
    LET y == z.right
        T2 == y.left
        z1 == [z EXCEPT !.right = T2]
        z2 == [z1 EXCEPT !.height =
                   1 + Max(get_height(z1.left), get_height(z1.right))]
        y1 == [y EXCEPT !.left = z2]
    IN  [y1 EXCEPT !.height =
             1 + Max(get_height(y1.left), get_height(y1.right))]

\* right_rotate with the height updates left out
right_rotate_no_heights(z) ==
    LET y == z.left
        T3 == y.right
    IN  [y EXCEPT !.right = [z EXCEPT !.left = T3]]

right_rotate(z) ==
    LET y == z.left
        T3 == y.right
        z1 == [z EXCEPT !.left = T3]
        z2 == [z1 EXCEPT !.height =
                   1 + Max(get_height(z1.left), get_height(z1.right))]
        y1 == [y EXCEPT !.right = z2]
    IN  [y1 EXCEPT !.height =
             1 + Max(get_height(y1.left), get_height(y1.right))]

RECURSIVE get_min_value_node(_)
\* get_min_value_node without the descent to the left
get_min_value_node_no_descent(node) == node

get_min_value_node(node) ==
    IF node.left # None THEN get_min_value_node(node.left) ELSE node

RECURSIVE _insert(_, _)
RECURSIVE _delete(_, _)
RECURSIVE _search(_, _)

\* insert_rebalance without the Left-Right and Right-Left cases
insert_rebalance_single_only(node0, value) ==
    LET node == [node0 EXCEPT !.height =
                     1 + Max(get_height(node0.left), get_height(node0.right))]
        balance == get_balance(node)
    IN  IF balance > 1 /\ value < node.left.value
            THEN right_rotate(node)
        ELSE IF balance < -1 /\ value > node.right.value
            THEN left_rotate(node)
        ELSE node

\* insert_rebalance whose rotations hand back the height the subtree had
\* before it was rotated
insert_rebalance_keeping_height(node0, value) ==
    LET node == [node0 EXCEPT !.height =
                     1 + Max(get_height(node0.left), get_height(node0.right))]
        balance == get_balance(node)
    IN  IF balance > 1 /\ value < node.left.value
            THEN [right_rotate(node) EXCEPT !.height = node.height]
        ELSE IF balance < -1 /\ value > node.right.value
            THEN [left_rotate(node) EXCEPT !.height = node.height]
        ELSE IF balance > 1 /\ value > node.left.value
            THEN [right_rotate([node EXCEPT !.left = left_rotate(node.left)])
                      EXCEPT !.height = node.height]
        ELSE IF balance < -1 /\ value < node.right.value
            THEN [left_rotate([node EXCEPT !.right = right_rotate(node.right)])
                      EXCEPT !.height = node.height]
        ELSE node

\* _insert's rebalancing step tolerating a height difference of two
insert_rebalance_slack(node0, value) ==
    LET node == [node0 EXCEPT !.height =
                     1 + Max(get_height(node0.left), get_height(node0.right))]
        balance == get_balance(node)
    IN  IF balance > 2 /\ value < node.left.value
            THEN right_rotate(node)
        ELSE IF balance < -2 /\ value > node.right.value
            THEN left_rotate(node)
        ELSE IF balance > 2 /\ value > node.left.value
            THEN right_rotate([node EXCEPT !.left = left_rotate(node.left)])
        ELSE IF balance < -2 /\ value < node.right.value
            THEN left_rotate([node EXCEPT !.right = right_rotate(node.right)])
        ELSE node

\* the tail of _insert: height update and the four rebalancing cases
insert_rebalance(node0, value) ==
    LET node == [node0 EXCEPT !.height =
                     1 + Max(get_height(node0.left), get_height(node0.right))]
        balance == get_balance(node)
    IN  IF balance > 1 /\ value < node.left.value
            THEN right_rotate(node)
        ELSE IF balance < -1 /\ value > node.right.value
            THEN left_rotate(node)
        ELSE IF balance > 1 /\ value > node.left.value
            THEN right_rotate([node EXCEPT !.left = left_rotate(node.left)])
        ELSE IF balance < -1 /\ value < node.right.value
            THEN left_rotate([node EXCEPT !.right = right_rotate(node.right)])
        ELSE node

\* _insert that never rebalances (height update only)
_insert_unbalanced(node, value) ==
    IF node = None THEN [raised |-> FALSE, tree |-> Node(value)]
    ELSE IF value < node.value THEN
        LET r == _insert(node.left, value)
            n == [node EXCEPT !.left = r.tree]
        IN  IF r.raised THEN [raised |-> TRUE, tree |-> n]
            ELSE [raised |-> FALSE, tree |->
                     [n EXCEPT !.height =
                          1 + Max(get_height(n.left), get_height(n.right))]]
    ELSE IF value > node.value THEN
        LET r == _insert(node.right, value)
            n == [node EXCEPT !.right = r.tree]
        IN  IF r.raised THEN [raised |-> TRUE, tree |-> n]
            ELSE [raised |-> FALSE, tree |->
                     [n EXCEPT !.height =
                          1 + Max(get_height(n.left), get_height(n.right))]]
    ELSE [raised |-> TRUE, tree |-> node]

\* _insert that sends an equal value to the right instead of raising
_insert_lenient(node, value) ==
    IF node = None THEN [raised |-> FALSE, tree |-> Node(value)]
    ELSE IF value < node.value THEN
        LET r == _insert(node.left, value)
        IN  [raised |-> FALSE,
             tree |-> insert_rebalance([node EXCEPT !.left = r.tree], value)]
    ELSE
        LET r == _insert(node.right, value)
        IN  [raised |-> FALSE,
             tree |-> [node EXCEPT !.right = r.tree,
                                   !.height = 1 + Max(get_height(node.left),
                                                      get_height(r.tree))]]

_insert(node, value) ==
    IF node = None THEN [raised |-> FALSE, tree |-> Node(value)]
    ELSE IF value < node.value THEN
        LET r == _insert(node.left, value)
            n == [node EXCEPT !.left = r.tree]
        IN  IF r.raised THEN [raised |-> TRUE, tree |-> n]
            ELSE [raised |-> FALSE, tree |-> insert_rebalance(n, value)]
    ELSE IF value > node.value THEN
        LET r == _insert(node.right, value)
            n == [node EXCEPT !.right = r.tree]
        IN  IF r.raised THEN [raised |-> TRUE, tree |-> n]
            ELSE [raised |-> FALSE, tree |-> insert_rebalance(n, value)]
    ELSE [raised |-> TRUE, tree |-> node]

\* delete_rebalance that updates the height and never rotates
delete_rebalance_skipped(node0) ==
    [node0 EXCEPT !.height =
         1 + Max(get_height(node0.left), get_height(node0.right))]

\* the tail of _delete: height update and the four rebalancing cases
delete_rebalance(node0) ==
    LET node == [node0 EXCEPT !.height =
                     1 + Max(get_height(node0.left), get_height(node0.right))]
        balance == get_balance(node)
    IN  IF balance > 1 /\ get_balance(node.left) >= 0
            THEN right_rotate(node)
        ELSE IF balance > 1 /\ get_balance(node.left) < 0
            THEN right_rotate([node EXCEPT !.left = left_rotate(node.left)])
        ELSE IF balance < -1 /\ get_balance(node.right) <= 0
            THEN left_rotate(node)
        ELSE IF balance < -1 /\ get_balance(node.right) > 0
            THEN left_rotate([node EXCEPT !.right = right_rotate(node.right)])
        ELSE node

\* _delete that returns normally when the value is not found
_delete_lenient(node, value) ==
    IF node = None THEN [raised |-> FALSE, tree |-> None]
    ELSE IF value < node.value THEN
        LET r == _delete(node.left, value)
        IN  [raised |-> FALSE,
             tree |-> delete_rebalance([node EXCEPT !.left = r.tree])]
    ELSE IF value > node.value THEN
        LET r == _delete(node.right, value)
        IN  [raised |-> FALSE,
             tree |-> delete_rebalance([node EXCEPT !.right = r.tree])]
    ELSE IF node.left = None THEN [raised |-> FALSE, tree |-> node.right]
    ELSE IF node.right = None THEN [raised |-> FALSE, tree |-> node.left]
    ELSE
        LET temp == get_min_value_node(node.right)
            r == _delete(node.right, temp.value)
        IN  [raised |-> FALSE,
             tree |-> delete_rebalance(
                          [node EXCEPT !.value = temp.value, !.right = r.tree])]

\* _delete that copies the in-order successor into a two-child node and
\* leaves the successor's own node in place
_delete_keep_successor(node, value) ==
    IF node = None THEN [raised |-> TRUE, tree |-> None]
    ELSE IF value < node.value THEN
        LET r == _delete(node.left, value)
            n == [node EXCEPT !.left = r.tree]
        IN  IF r.raised THEN [raised |-> TRUE, tree |-> n]
            ELSE [raised |-> FALSE, tree |-> delete_rebalance(n)]
    ELSE IF value > node.value THEN
        LET r == _delete(node.right, value)
            n == [node EXCEPT !.right = r.tree]
        IN  IF r.raised THEN [raised |-> TRUE, tree |-> n]
            ELSE [raised |-> FALSE, tree |-> delete_rebalance(n)]
    ELSE IF node.left = None THEN [raised |-> FALSE, tree |-> node.right]
    ELSE IF node.right = None THEN [raised |-> FALSE, tree |-> node.left]
    ELSE
        LET temp == get_min_value_node(node.right)
        IN  [raised |-> FALSE,
             tree |-> delete_rebalance([node EXCEPT !.value = temp.value])]

\* the node of greatest value in the subtree (the in-order predecessor's
\* node when called on a left subtree)
RECURSIVE get_max_value_node(_)
get_max_value_node(node) ==
    IF node.right # None THEN get_max_value_node(node.right) ELSE node

\* _delete that replaces a two-child node by its in-order predecessor
_delete_predecessor(node, value) ==
    IF node = None THEN [raised |-> TRUE, tree |-> None]
    ELSE IF value < node.value THEN
        LET r == _delete(node.left, value)
            n == [node EXCEPT !.left = r.tree]
        IN  IF r.raised THEN [raised |-> TRUE, tree |-> n]
            ELSE [raised |-> FALSE, tree |-> delete_rebalance(n)]
    ELSE IF value > node.value THEN
        LET r == _delete(node.right, value)
            n == [node EXCEPT !.right = r.tree]
        IN  IF r.raised THEN [raised |-> TRUE, tree |-> n]
            ELSE [raised |-> FALSE, tree |-> delete_rebalance(n)]
    ELSE IF node.left = None THEN [raised |-> FALSE, tree |-> node.right]
    ELSE IF node.right = None THEN [raised |-> FALSE, tree |-> node.left]
    ELSE
        LET temp == get_max_value_node(node.left)
            n1 == [node EXCEPT !.value = temp.value]
            r == _delete(n1.left, temp.value)
            n == [n1 EXCEPT !.left = r.tree]
        IN  IF r.raised THEN [raised |-> TRUE, tree |-> n]
            ELSE [raised |-> FALSE, tree |-> delete_rebalance(n)]

_delete(node, value) ==
    IF node = None THEN [raised |-> TRUE, tree |-> None]
    ELSE IF value < node.value THEN
        LET r == _delete(node.left, value)
            n == [node EXCEPT !.left = r.tree]
        IN  IF r.raised THEN [raised |-> TRUE, tree |-> n]
            ELSE [raised |-> FALSE, tree |-> delete_rebalance(n)]
    ELSE IF value > node.value THEN
        LET r == _delete(node.right, value)
            n == [node EXCEPT !.right = r.tree]
        IN  IF r.raised THEN [raised |-> TRUE, tree |-> n]
            ELSE [raised |-> FALSE, tree |-> delete_rebalance(n)]
    ELSE IF node.left = None THEN [raised |-> FALSE, tree |-> node.right]
    ELSE IF node.right = None THEN [raised |-> FALSE, tree |-> node.left]
    ELSE
        LET temp == get_min_value_node(node.right)
            n1 == [node EXCEPT !.value = temp.value]
            r == _delete(n1.right, temp.value)
            n == [n1 EXCEPT !.right = r.tree]
        IN  IF r.raised THEN [raised |-> TRUE, tree |-> n]
            ELSE [raised |-> FALSE, tree |-> delete_rebalance(n)]

\* _search that descends the wrong way
_search_mirrored(node, value) ==
    IF node = None \/ node.value = value THEN node
    ELSE IF value < node.value THEN _search(node.right, value)
    ELSE _search(node.left, value)

_search(node, value) ==
    IF node = None \/ node.value = value THEN node
    ELSE IF value < node.value THEN _search(node.left, value)
    ELSE _search(node.right, value)

search(r, value) == _search(r, value)

RECURSIVE _preorder_traversal(_, _)
_preorder_traversal(node, result) ==
    IF node # None
        THEN _preorder_traversal(node.right,
                 _preorder_traversal(node.left, Append(result, node.value)))
        ELSE result

RECURSIVE _inorder_traversal(_, _)
_inorder_traversal(node, result) ==
    IF node # None
        THEN _inorder_traversal(node.right,
                 Append(_inorder_traversal(node.left, result), node.value))
        ELSE result

RECURSIVE _postorder_traversal(_, _)
_postorder_traversal(node, result) ==
    IF node # None
        THEN Append(_postorder_traversal(node.right,
                        _postorder_traversal(node.left, result)), node.value)
        ELSE result

preorder_traversal(r) == _preorder_traversal(r, <<>>)

inorder_traversal(r) == _inorder_traversal(r, <<>>)

postorder_traversal(r) == _postorder_traversal(r, <<>>)

RECURSIVE _is_balanced(_)
_is_balanced(node) ==
    IF node = None THEN TRUE
    ELSE /\ Abs(get_balance(node)) <= 1
         /\ _is_balanced(node.left)
         /\ _is_balanced(node.right)

\* ----------------------------------------------------------- AVLTreeCLI
RECURSIVE _insert_manual(_, _)
_insert_manual(node, value) ==
    IF node = None THEN Node(value)
    ELSE
        LET n == IF value < node.value
                     THEN [node EXCEPT !.left = _insert_manual(node.left, value)]
                     ELSE [node EXCEPT !.right = _insert_manual(node.right, value)]
        IN  [n EXCEPT !.height =
                 1 + Max(get_height(n.left), get_height(n.right))]

RECURSIVE _delete_manual(_, _)
_delete_manual(node, value) ==
    IF node = None THEN node
    ELSE IF value = node.value /\ node.left = None THEN node.right
    ELSE IF value = node.value /\ node.right = None THEN node.left
    ELSE
        LET n == IF value < node.value
                     THEN [node EXCEPT !.left = _delete_manual(node.left, value)]
                 ELSE IF value > node.value
                     THEN [node EXCEPT !.right = _delete_manual(node.right, value)]
                 ELSE
                     LET temp == get_min_value_node(node.right)
                     IN  [node EXCEPT !.value = temp.value,
                                      !.right = _delete_manual(node.right,
                                                               temp.value)]
        IN  [n EXCEPT !.height =
                 1 + Max(get_height(n.left), get_height(n.right))]

RECURSIVE _find_unbalanced_node_preorder(_)
\* _find_unbalanced_node checking the node itself before its children
_find_unbalanced_node_preorder(node) ==
    IF node = None THEN None
    ELSE IF Abs(get_balance(node)) > 1 THEN node
    ELSE
        LET left_unbalanced == _find_unbalanced_node_preorder(node.left)
            right_unbalanced == _find_unbalanced_node_preorder(node.right)
        IN  IF left_unbalanced # None THEN left_unbalanced
            ELSE right_unbalanced

RECURSIVE _find_unbalanced_node(_)
_find_unbalanced_node(node) ==
    IF node = None THEN None
    ELSE
        LET left_unbalanced == _find_unbalanced_node(node.left)
            right_unbalanced == _find_unbalanced_node(node.right)
        IN  IF left_unbalanced # None THEN left_unbalanced
            ELSE IF right_unbalanced # None THEN right_unbalanced
            ELSE IF Abs(get_balance(node)) > 1 THEN node
            ELSE None

\* The parent search of _balance_node_and_update_root_with_steps (descent
\* from current by target_node.value) and the final update of the parent's
\* child slot, or of the root when the descent starts at target_node.
\* When the descent falls off the tree, parent.left == target_node is false
\* and the parent's right slot is set.
RECURSIVE relink_balanced(_, _, _)
relink_balanced(current, target_node, balanced_node) ==
    IF current = target_node THEN balanced_node
    ELSE
        LET goes_left == target_node.value < current.value
            next == IF goes_left THEN current.left ELSE current.right
        IN  IF next = None
                THEN [current EXCEPT !.right = balanced_node]
            ELSE IF next = target_node
                THEN IF current.left = target_node
                         THEN [current EXCEPT !.left = balanced_node]
                         ELSE [current EXCEPT !.right = balanced_node]
            ELSE IF goes_left
                THEN [current EXCEPT !.left =
                          relink_balanced(next, target_node, balanced_node)]
                ELSE [current EXCEPT !.right =
                          relink_balanced(next, target_node, balanced_node)]

\* self.tree.root after _balance_node_and_update_root_with_steps(target_node)
_balance_node_and_update_root_with_steps(tree_root, target_node) ==
    LET balance == get_balance(target_node)
        balanced_node ==
            IF balance > 1 THEN
                IF get_balance(target_node.left) < 0
                    THEN right_rotate([target_node EXCEPT
                                          !.left = left_rotate(target_node.left)])
                    ELSE right_rotate(target_node)
            ELSE IF balance < -1 THEN
                IF get_balance(target_node.right) > 0
                    THEN left_rotate([target_node EXCEPT
                                         !.right = right_rotate(target_node.right)])
                    ELSE left_rotate(target_node)
            ELSE target_node
    IN  relink_balanced(tree_root, target_node, balanced_node)

\* _balance_tree_with_steps that leaves its loop after one iteration
_balance_tree_with_steps_once(tree_root) ==
    LET unbalanced_node == _find_unbalanced_node(tree_root)
    IN  IF unbalanced_node = None THEN tree_root
        ELSE _balance_node_and_update_root_with_steps(tree_root,
                                                      unbalanced_node)

\* self.tree.root when the loop of _balance_tree_with_steps exits
RECURSIVE _balance_tree_with_steps(_)
_balance_tree_with_steps(tree_root) ==
    LET unbalanced_node == _find_unbalanced_node(tree_root)
    IN  IF unbalanced_node = None THEN tree_root
        ELSE _balance_tree_with_steps(
                 _balance_node_and_update_root_with_steps(tree_root,
                                                          unbalanced_node))

_insert_with_auto_balance(tree_root, value) ==
    _balance_tree_with_steps(_insert_manual(tree_root, value))

_delete_with_auto_balance(tree_root, value) ==
    _balance_tree_with_steps(_delete_manual(tree_root, value))

\* _rotate_node_and_update_parent that leaves the parent pointing at node
RECURSIVE _rotate_node_and_update_parent_unlinked(_, _, _)
_rotate_node_and_update_parent_unlinked(current, node, direction) ==
    LET rotated_node == IF direction = "left" THEN left_rotate(node)
                                              ELSE right_rotate(node)
        demoted == IF direction = "left" THEN rotated_node.left
                                         ELSE rotated_node.right
    IN  IF current = node THEN demoted
        ELSE IF node.value < current.value
            THEN [current EXCEPT !.left =
                      _rotate_node_and_update_parent_unlinked(current.left,
                                                              node, direction)]
            ELSE [current EXCEPT !.right =
                      _rotate_node_and_update_parent_unlinked(current.right,
                                                              node, direction)]

\* the tree below current after _rotate_node_and_update_parent(node, direction)
RECURSIVE _rotate_node_and_update_parent(_, _, _)
_rotate_node_and_update_parent(current, node, direction) ==
    LET rotated_node == IF direction = "left" THEN left_rotate(node)
                                              ELSE right_rotate(node)
    IN  IF current = node THEN rotated_node
        ELSE
            LET goes_left == node.value < current.value
                next == IF goes_left THEN current.left ELSE current.right
            IN  IF next = None
                    THEN [current EXCEPT !.right = rotated_node]
                ELSE IF next = node
                    THEN IF current.left = node
                             THEN [current EXCEPT !.left = rotated_node]
                             ELSE [current EXCEPT !.right = rotated_node]
                ELSE IF goes_left
                    THEN [current EXCEPT !.left =
                              _rotate_node_and_update_parent(next, node,
                                                             direction)]
                    ELSE [current EXCEPT !.right =
                              _rotate_node_and_update_parent(next, node,
                                                             direction)]

\* _update_all_heights that recomputes nothing
_update_all_heights_skipped(node) == node

RECURSIVE _update_all_heights(_)
_update_all_heights(node) ==
    IF node = None THEN None
    ELSE
        LET l == _update_all_heights(node.left)
            r == _update_all_heights(node.right)
        IN  [node EXCEPT !.left = l, !.right = r,
                         !.height = 1 + Max(get_height(l), get_height(r))]

RECURSIVE _find_unbalanced_ancestor_needing_rotation(_, _, _)
\* _find_unbalanced_ancestor_needing_rotation that takes the parent of node
\* for an ancestor in need of the rotation without looking at any balance
_find_unbalanced_ancestor_needing_rotation_unchecked(current, node, direction) ==
    IF current = None THEN None
    ELSE IF direction = "left" /\ current.left = node THEN current
    ELSE IF direction = "right" /\ current.right = node THEN current
    ELSE IF node.value < current.value
        THEN _find_unbalanced_ancestor_needing_rotation(
                 current.left, node, direction)
    ELSE IF node.value > current.value
        THEN _find_unbalanced_ancestor_needing_rotation(
                 current.right, node, direction)
    ELSE None

_find_unbalanced_ancestor_needing_rotation(current, node, direction) ==
    IF current = None THEN None
    ELSE
        LET balance == get_balance(current)
        IN  IF /\ Abs(balance) > 1
               /\ balance > 1 /\ direction = "left" /\ current.left = node
                THEN IF get_balance(current.left) < 0 THEN current ELSE None
            ELSE IF /\ Abs(balance) > 1
                    /\ balance < -1 /\ direction = "right"
                    /\ current.right = node
                THEN IF get_balance(current.right) > 0 THEN current ELSE None
            ELSE IF node.value < current.value
                THEN _find_unbalanced_ancestor_needing_rotation(
                         current.left, node, direction)
            ELSE IF node.value > current.value
                THEN _find_unbalanced_ancestor_needing_rotation(
                         current.right, node, direction)
            ELSE None

\* _is_rotation_needed that approves either direction on an unbalanced node
_is_rotation_needed_any_direction(tree_root, value, direction) ==
    LET node == search(tree_root, value)
    IN  IF node = None THEN FALSE
        ELSE IF Abs(get_balance(node)) > 1 THEN TRUE
        ELSE _find_unbalanced_ancestor_needing_rotation(
                 tree_root, node, direction) # None

_is_rotation_needed(tree_root, value, direction) ==
    LET node == search(tree_root, value)
        balance == get_balance(node)
    IN  IF node = None THEN FALSE
        ELSE IF Abs(balance) > 1 /\ balance > 1 /\ direction = "right"
            THEN get_balance(node.left) >= 0
        ELSE IF Abs(balance) > 1 /\ balance < -1 /\ direction = "left"
            THEN get_balance(node.right) <= 0
        ELSE _find_unbalanced_ancestor_needing_rotation(
                 tree_root, node, direction) # None

\* ------------------------------------------------- measures used by claims
\* the subtrees of a tree, one per node
RECURSIVE Subtrees(_)
Subtrees(node) ==
    IF node = None THEN {}
    ELSE {node} \cup Subtrees(node.left) \cup Subtrees(node.right)

\* the values held in t
Values(t) == {n.value : n \in Subtrees(t)}

\* AVLTreeCLI._get_tree_height: the longest path from node down to a leaf,
\* counted in nodes, whatever the stored heights say
RECURSIVE _get_tree_height(_)
_get_tree_height(node) ==
    IF node = None THEN 0
    ELSE 1 + Max(_get_tree_height(node.left), _get_tree_height(node.right))

\* the tree without its height fields: value at every position
RECURSIVE Shape(_)
Shape(node) ==
    IF node = None THEN None
    ELSE <<node.value, Shape(node.left), Shape(node.right)>>

\* the ascending list of a finite set of integers
RECURSIVE SortedSeq(_)
SortedSeq(S) ==
    IF S = {} THEN <<>>
    ELSE LET m == CHOOSE x \in S : \A y \in S : x <= y
         IN  <<m>> \o SortedSeq(S \ {m})

\* which branch of _delete (lines 137-145) the node holding value takes
DeleteKind(r, value) ==
    LET n == _search(r, value)
    IN  IF n = None THEN "absent"
        ELSE IF n.left # None /\ n.right # None THEN "two"
        ELSE IF n.left # None \/ n.right # None THEN "one"
        ELSE IF n = r THEN "sole"
        ELSE "leaf"

\* ------------------------------------------------------------------ state
Init ==
    /\ root = None
    /\ tree = None
    /\ mode = "automatic"
    /\ present = {}
    /\ auto_only = TRUE
    /\ last = [op |-> "init", arg |-> 0, out |-> "ok", kind |-> "-"]

\* AVLTree.insert(value): self.root = self._insert(self.root, value)
Insert(value) ==
    LET r == _insert(root, value)
    IN  /\ root' = r.tree
        /\ present' = IF r.raised THEN present ELSE present \cup {value}
        /\ last' = [op |-> "insert", arg |-> value,
                    out |-> IF r.raised THEN "ValueError" ELSE "ok",
                    kind |-> "-"]
        /\ UNCHANGED <<tree, mode, auto_only>>

\* AVLTree.delete(value): self.root = self._delete(self.root, value)
Delete(value) ==
    LET r == _delete(root, value)
    IN  /\ root' = r.tree
        /\ present' = IF r.raised THEN present ELSE present \ {value}
        /\ last' = [op |-> "delete", arg |-> value,
                    out |-> IF r.raised THEN "ValueError" ELSE "ok",
                    kind |-> DeleteKind(root, value)]
        /\ UNCHANGED <<tree, mode, auto_only>>

NextEngine ==
    \/ \E value \in 1..MaxValEngine : Insert(value)
    \/ \E value \in 1..MaxValEngine : Delete(value)

SpecEngine == Init /\ [][NextEngine]_vars

\* the engine given inserts and deletes of few values
NextRebalance ==
    \/ \E value \in 1..MaxValRebalance : Insert(value)
    \/ \E value \in 1..MaxValRebalance : Delete(value)

SpecRebalance == Init /\ [][NextRebalance]_vars

TraversalOps == {"preorder", "inorder", "postorder"}

\* the traversal methods given a result list that still holds what the
\* traversal before returned
Traverse_accumulating(which) ==
    LET result == IF last.op \in TraversalOps THEN last.out ELSE <<>>
    IN  /\ which \in TraversalOps
        /\ last' = [op |-> which, arg |-> 0, kind |-> "-",
                    out |-> IF which = "preorder"
                                THEN _preorder_traversal(root, result)
                            ELSE IF which = "inorder"
                                THEN _inorder_traversal(root, result)
                            ELSE _postorder_traversal(root, result)]
        /\ UNCHANGED <<root, tree, mode, present, auto_only>>

\* AVLTree.preorder_traversal(), inorder_traversal(), postorder_traversal():
\* last.out is the list returned
Traverse(which) ==
    /\ which \in TraversalOps
    /\ last' = [op |-> which, arg |-> 0, kind |-> "-",
                out |-> IF which = "preorder" THEN preorder_traversal(root)
                        ELSE IF which = "inorder" THEN inorder_traversal(root)
                        ELSE postorder_traversal(root)]
    /\ UNCHANGED <<root, tree, mode, present, auto_only>>

\* an AVLTree given insert, delete and traversal calls
NextTraversal ==
    \/ \E value \in 1..MaxValTrav : Insert(value)
    \/ \E value \in 1..MaxValTrav : Delete(value)
    \/ \E which \in TraversalOps : Traverse(which)

SpecTraversal == Init /\ [][NextTraversal]_vars

\* the largest and the smallest element of a non-empty set of integers
SetMax(S) == CHOOSE x \in S : \A y \in S : y <= x

SetMin(S) == CHOOSE x \in S : \A y \in S : x <= y

\* an AVLTree given a run of consecutive values with insert, in ascending
\* order (each value the next above the one before) or in descending order
NextSequential ==
    \/ /\ present = {}
       /\ \E value \in 1..MaxValSeq : Insert(value)
    \/ /\ present # {}
       /\ last.arg = SetMax(present)
       /\ last.arg < MaxValSeq
       /\ Insert(last.arg + 1)
    \/ /\ present # {}
       /\ last.arg = SetMin(present)
       /\ last.arg > 1
       /\ Insert(last.arg - 1)

SpecSequential == Init /\ [][NextSequential]_vars

\* ------------------------------------------------- process_command actions
\* the AVLTree fed the values of the session's a / d commands, while the
\* session has only been in automatic mode
RefInsert(value) ==
    LET r == _insert(root, value)
    IN  IF auto_only
            THEN /\ root' = r.tree
                 /\ present' = IF r.raised THEN present ELSE present \cup {value}
            ELSE UNCHANGED <<root, present>>

RefDelete(value) ==
    LET r == _delete(root, value)
    IN  IF auto_only
            THEN /\ root' = r.tree
                 /\ present' = IF r.raised THEN present ELSE present \ {value}
            ELSE UNCHANGED <<root, present>>

\* CmdAdd without the practice-mode check for an unbalanced tree
CmdAdd_ungated(value) ==
    LET out == IF search(tree, value) # None THEN "duplicate" ELSE "done"
    IN  /\ tree' = IF out # "done" THEN tree
                   ELSE IF mode = "automatic"
                       THEN _insert_with_auto_balance(tree, value)
                       ELSE _insert_manual(tree, value)
        /\ RefInsert(value)
        /\ last' = [op |-> "a", arg |-> value, out |-> out, kind |-> "-"]
        /\ UNCHANGED <<mode, auto_only>>

\* "a <value>"
CmdAdd(value) ==
    LET out == IF search(tree, value) # None THEN "duplicate"
               ELSE IF mode = "automatic" THEN "done"
               ELSE IF _find_unbalanced_node(tree) # None THEN "unbalanced"
               ELSE "done"
    IN  /\ tree' = IF out # "done" THEN tree
                   ELSE IF mode = "automatic"
                       THEN _insert_with_auto_balance(tree, value)
                       ELSE _insert_manual(tree, value)
        /\ RefInsert(value)
        /\ last' = [op |-> "a", arg |-> value, out |-> out, kind |-> "-"]
        /\ UNCHANGED <<mode, auto_only>>

\* CmdDelete that rebalances in practice mode as well
CmdDelete_balancing(value) ==
    LET out == IF search(tree, value) = None THEN "not found"
               ELSE IF mode = "automatic" THEN "done"
               ELSE IF _find_unbalanced_node(tree) # None THEN "unbalanced"
               ELSE "done"
    IN  /\ tree' = IF out # "done" THEN tree
                   ELSE _delete_with_auto_balance(tree, value)
        /\ RefDelete(value)
        /\ last' = [op |-> "d", arg |-> value, out |-> out,
                    kind |-> DeleteKind(tree, value)]
        /\ UNCHANGED <<mode, auto_only>>

\* "d <value>"
CmdDelete(value) ==
    LET out == IF search(tree, value) = None THEN "not found"
               ELSE IF mode = "automatic" THEN "done"
               ELSE IF _find_unbalanced_node(tree) # None THEN "unbalanced"
               ELSE "done"
    IN  /\ tree' = IF out # "done" THEN tree
                   ELSE IF mode = "automatic"
                       THEN _delete_with_auto_balance(tree, value)
                       ELSE _delete_manual(tree, value)
        /\ RefDelete(value)
        /\ last' = [op |-> "d", arg |-> value, out |-> out,
                    kind |-> DeleteKind(tree, value)]
        /\ UNCHANGED <<mode, auto_only>>

\* CmdRotate without the rejection in automatic mode
CmdRotate_in_automatic(cmd, value) ==
    LET direction == IF cmd = "rr" THEN "right" ELSE "left"
        node == search(tree, value)
        out == IF node = None THEN "not found"
               ELSE IF direction = "left" /\ node.right = None
                   THEN "AttributeError"
               ELSE IF direction = "right" /\ node.left = None
                   THEN "AttributeError"
               ELSE "done"
    IN  /\ cmd \in {"rr", "rl"}
        /\ tree' = IF out # "done" THEN tree
                   ELSE IF node = tree
                       THEN _update_all_heights(
                                IF direction = "left" THEN left_rotate(node)
                                                      ELSE right_rotate(node))
                       ELSE _update_all_heights(
                                _rotate_node_and_update_parent(tree, node,
                                                               direction))
        /\ last' = [op |-> cmd, arg |-> value, out |-> out, kind |-> "-"]
        /\ UNCHANGED <<root, present, mode, auto_only>>

\* CmdRotate without the validation of practice mode
CmdRotate_unvalidated(cmd, value) ==
    LET direction == IF cmd = "rr" THEN "right" ELSE "left"
        node == search(tree, value)
        out == IF mode = "automatic" THEN "disabled"
               ELSE IF node = None THEN "not found"
               ELSE IF direction = "left" /\ node.right = None
                   THEN "AttributeError"
               ELSE IF direction = "right" /\ node.left = None
                   THEN "AttributeError"
               ELSE "done"
    IN  /\ cmd \in {"rr", "rl"}
        /\ tree' = IF out # "done" THEN tree
                   ELSE IF node = tree
                       THEN _update_all_heights(
                                IF direction = "left" THEN left_rotate(node)
                                                      ELSE right_rotate(node))
                       ELSE _update_all_heights(
                                _rotate_node_and_update_parent(tree, node,
                                                               direction))
        /\ last' = [op |-> cmd, arg |-> value, out |-> out, kind |-> "-"]
        /\ UNCHANGED <<root, present, mode, auto_only>>

\* the rr / rl branch of process_command on tree t in mode m: the message it
\* ends with and the tree it leaves
process_command_rotate(t, m, cmd, value) ==
    LET direction == IF cmd = "rr" THEN "right" ELSE "left"
        node == search(t, value)
        out == IF m = "automatic" THEN "disabled"
               ELSE IF node = None THEN "not found"
               ELSE IF m = "practice"
                       /\ ~_is_rotation_needed(t, value, direction)
                   THEN "not needed"
               ELSE IF direction = "left" /\ node.right = None
                   THEN "AttributeError"
               ELSE IF direction = "right" /\ node.left = None
                   THEN "AttributeError"
               ELSE "done"
    IN  [out |-> out,
         tree |-> IF out # "done" THEN t
                  ELSE IF node = t
                      THEN _update_all_heights(
                               IF direction = "left" THEN left_rotate(node)
                                                     ELSE right_rotate(node))
                      ELSE _update_all_heights(
                               _rotate_node_and_update_parent(t, node,
                                                              direction))]

\* "rr <value>" (direction right) and "rl <value>" (direction left)
CmdRotate(cmd, value) ==
    LET r == process_command_rotate(tree, mode, cmd, value)
    IN  /\ cmd \in {"rr", "rl"}
        /\ tree' = r.tree
        /\ last' = [op |-> cmd, arg |-> value, out |-> r.out, kind |-> "-"]
        /\ UNCHANGED <<root, present, mode, auto_only>>

\* CmdConfigMode that rebalances the tree when automatic mode is entered
CmdConfigMode_rebalancing(value) ==
    LET valid == value \in {"automatic", "practice"}
    IN  /\ mode' = IF valid THEN value ELSE mode
        /\ auto_only' = IF value = "practice" THEN FALSE ELSE auto_only
        /\ root' = IF value = "practice" THEN None ELSE root
        /\ present' = IF value = "practice" THEN {} ELSE present
        /\ last' = [op |-> "config", arg |-> 0,
                    out |-> IF valid THEN value ELSE "invalid", kind |-> "-"]
        /\ tree' = IF value = "automatic" THEN _balance_tree_with_steps(tree)
                                          ELSE tree

\* "config mode <value>"
CmdConfigMode(value) ==
    LET valid == value \in {"automatic", "practice"}
    IN  /\ mode' = IF valid THEN value ELSE mode
        /\ auto_only' = IF value = "practice" THEN FALSE ELSE auto_only
        /\ root' = IF value = "practice" THEN None ELSE root
        /\ present' = IF value = "practice" THEN {} ELSE present
        /\ last' = [op |-> "config", arg |-> 0,
                    out |-> IF valid THEN value ELSE "invalid", kind |-> "-"]
        /\ UNCHANGED tree

\* "reset"
CmdReset ==
    /\ tree' = None
    /\ auto_only' = (mode = "automatic")
    /\ root' = None
    /\ present' = {}
    /\ last' = [op |-> "reset", arg |-> 0, out |-> "done", kind |-> "-"]
    /\ UNCHANGED mode

\* a session given any command
NextCLI ==
    \/ \E value \in 1..MaxValCLI : CmdAdd(value)
    \/ \E value \in 1..MaxValCLI : CmdDelete(value)
    \/ \E cmd \in {"rr", "rl"}, value \in 1..MaxValCLI : CmdRotate(cmd, value)
    \/ \E value \in {"automatic", "practice", "manual"} : CmdConfigMode(value)
    \/ CmdReset

SpecCLI == Init /\ [][NextCLI]_vars

QueryOps == {"search", "get_balance", "get_height", "_find_unbalanced_node"}

\* the queries with a get_height that stores the height it computes from the
\* children into the node
Query_refreshing(q, value) ==
    LET node == search(tree, value)
    IN  /\ q \in QueryOps
        /\ (q = "_find_unbalanced_node") = (value = 0)
        /\ last' = [op |-> q, arg |-> value, kind |-> "-",
                    out |-> IF q = "search" THEN node
                            ELSE IF q = "get_balance" THEN get_balance(node)
                            ELSE IF q = "get_height" THEN get_height(node)
                            ELSE _find_unbalanced_node(tree)]
        /\ tree' = IF q = "get_height" THEN _update_all_heights(tree)
                                       ELSE tree
        /\ UNCHANGED <<root, mode, present, auto_only>>

\* self.tree.search(value), self.tree.get_balance(node) and
\* self.tree.get_height(node) for the node search(value) finds (None when
\* absent), and self._find_unbalanced_node(self.tree.root), called on the
\* session's tree; last.out is what the call returned
Query(q, value) ==
    LET node == search(tree, value)
    IN  /\ q \in QueryOps
        /\ (q = "_find_unbalanced_node") = (value = 0)
        /\ last' = [op |-> q, arg |-> value, kind |-> "-",
                    out |-> IF q = "search" THEN node
                            ELSE IF q = "get_balance" THEN get_balance(node)
                            ELSE IF q = "get_height" THEN get_height(node)
                            ELSE _find_unbalanced_node(tree)]
        /\ UNCHANGED <<root, tree, mode, present, auto_only>>

\* a session given any command, with queries made between the commands
NextQuery ==
    \/ \E value \in 1..MaxValQuery : CmdAdd(value)
    \/ \E value \in 1..MaxValQuery : CmdDelete(value)
    \/ \E cmd \in {"rr", "rl"}, value \in 1..MaxValQuery :
           CmdRotate(cmd, value)
    \/ \E value \in {"automatic", "practice"} : CmdConfigMode(value)
    \/ \E q \in QueryOps, value \in 0..MaxValQuery : Query(q, value)

SpecQuery == Init /\ [][NextQuery]_vars

\* the characters a typed argument is made of: digits, a sign, a letter
DigitChars == <<"0", "1", "2", "3", "4", "5", "6", "7", "8", "9">>
Digits == {DigitChars[i + 1] : i \in 0..MaxDigitInput}
Chars == Digits \cup {"-", "x"}

\* the words command.split() can give as arguments: one character, or a
\* character after a sign, after a zero or before a letter
Tokens ==
    {<<c>> : c \in Chars} \cup {<<"-", c>> : c \in Chars}
                          \cup {<<"0", c>> : c \in Chars}
                          \cup {<<c, "x">> : c \in Chars}

\* the argument lists of a command line: none, one word, or two words
ArgLists == {<<>>} \cup {<<t>> : t \in Tokens}
                   \cup {<<t, <<"x">>>> : t \in Tokens}

DigitValue(c) == CHOOSE i \in 0..MaxDigitInput : DigitChars[i + 1] = c

\* int(word) with every word read as its last digit
int_lenient(word) ==
    [raised |-> FALSE,
     value |-> IF word[Len(word)] \in Digits THEN DigitValue(word[Len(word)])
               ELSE 1]

\* int(word): digits with an optional leading sign give the number,
\* anything else raises ValueError
int(word) ==
    IF \A i \in 1..Len(word) : word[i] \in Digits
        THEN [raised |-> FALSE,
              value |-> IF Len(word) = 1 THEN DigitValue(word[1])
                        ELSE 10 * DigitValue(word[1]) + DigitValue(word[2])]
    ELSE IF Len(word) = 2 /\ word[1] = "-" /\ word[2] \in Digits
        THEN [raised |-> FALSE, value |-> 0 - DigitValue(word[2])]
    ELSE [raised |-> TRUE, value |-> 0]

\* process_command(command) for a command word and its argument words:
\* a / d / rr / rl take one argument and convert it with int(); the
\* ValueError of the conversion is caught and reported; any other word, or
\* another number of arguments, is an invalid command
process_command(cmd, args) ==
    IF cmd \in {"a", "d", "rr", "rl"} /\ Len(args) = 1
        THEN IF int(args[1]).raised
                 THEN /\ last' = [op |-> cmd, arg |-> 0,
                                  out |-> "Invalid number", kind |-> "-"]
                      /\ UNCHANGED <<root, tree, mode, present, auto_only>>
             ELSE IF cmd = "a" THEN CmdAdd(int(args[1]).value)
             ELSE IF cmd = "d" THEN CmdDelete(int(args[1]).value)
             ELSE CmdRotate(cmd, int(args[1]).value)
    ELSE /\ last' = [op |-> cmd, arg |-> 0,
                     out |-> "Invalid command", kind |-> "-"]
         /\ UNCHANGED <<root, tree, mode, present, auto_only>>

CommandWords == {"a", "d", "rr", "rl", "rotate"}

\* a session given typed command lines, well formed or not
NextInput ==
    \/ \E cmd \in CommandWords, args \in ArgLists :
           process_command(cmd, args)
    \/ \E value \in {"automatic", "practice", "manual"} : CmdConfigMode(value)

SpecInput == Init /\ [][NextInput]_vars

\* a session left in its initial automatic mode and given a / d commands
NextAuto ==
    \/ \E value \in 1..MaxValAuto : CmdAdd(value)
    \/ \E value \in 1..MaxValAuto : CmdDelete(value)

SpecAuto == Init /\ [][NextAuto]_vars

\* a session left in automatic mode that is given the values of Script in
\* order with "a", and may take back the value just added with "d"
Script == <<16, 6, 17, 15, 8, 13, 7, 9, 5, 2, 14, 10, 12, 1, 11, 4, 18, 3>>

ScriptPending == {i \in DOMAIN Script : search(tree, Script[i]) = None}

\* the pending script positions the next "a" may take its value from
ScriptNext ==
    {i \in ScriptPending :
        Cardinality({j \in ScriptPending : j < i}) < ScriptWindow}

NextScript ==
    \/ \E i \in ScriptNext : CmdAdd(Script[i])
    \/ /\ last.op = "a" /\ last.out = "done"
       /\ CmdDelete(last.arg)

SpecScript == Init /\ [][NextScript]_vars

\* a session switched to practice mode at once, given the values of
\* PracticeScript in order with "a", and any rr / rl command on them
PracticeScript == <<5, 12, 3, 7, 1, 4, 11, 14, 2, 10, 6, 8, 13, 15, 9>>

PracticePending ==
    {i \in DOMAIN PracticeScript : search(tree, PracticeScript[i]) = None}

\* the pending script positions the next "a" may take its value from
PracticeNext ==
    {i \in PracticePending :
        Cardinality({j \in PracticePending : j < i}) < PracticeWindow}

NextPractice ==
    \/ /\ mode = "automatic"
       /\ CmdConfigMode("practice")
    \/ /\ mode = "practice"
       /\ \E i \in PracticeNext : CmdAdd(PracticeScript[i])
    \/ /\ mode = "practice"
       /\ \E cmd \in {"rr", "rl"}, value \in 1..Len(PracticeScript) :
              CmdRotate(cmd, value)

SpecPractice == Init /\ [][NextPractice]_vars

\* a session given the values of StaleScript in order with "a", switched to
\* practice mode at some point, and given any rr / rl command from then on
StaleScript == <<4, 3, 15, 7, 5, 10, 14, 1, 13, 12, 16, 2, 11, 8, 9, 6>>

StalePending ==
    {i \in DOMAIN StaleScript : search(tree, StaleScript[i]) = None}

\* the pending script positions the next "a" may take its value from
StaleNext ==
    {i \in StalePending :
        Cardinality({j \in StalePending : j < i}) < PracticeWindow}

NextStale ==
    \/ \E i \in StaleNext : CmdAdd(StaleScript[i])
    \/ /\ mode = "automatic"
       /\ CmdConfigMode("practice")
    \/ /\ mode = "practice"
       /\ \E cmd \in {"rr", "rl"}, value \in 1..Len(StaleScript) :
              CmdRotate(cmd, value)

SpecStale == Init /\ [][NextStale]_vars

\* ---------------------------------------------------------- engine claims
\* number of positions of sequence s that hold x
Occurrences(s, x) == Cardinality({i \in DOMAIN s : s[i] = x})

\* C1: after every AVLTree.insert / AVLTree.delete from the empty tree, every
\* node's subtrees differ in height by at most 1 (by the stored heights that
\* get_balance reads, and by the longest paths).
C1_AVLInvariant ==
    \A n \in Subtrees(root) :
        /\ Abs(get_balance(n)) <= 1
        /\ Abs(_get_tree_height(n.left) - _get_tree_height(n.right)) <= 1

\* a delete of a two-child node returned normally and left three levels
C1_Witness ==
    /\ last.op = "delete" /\ last.out = "ok" /\ last.kind = "two"
    /\ Cardinality(present) >= 6
    /\ _get_tree_height(root) >= 3

\* C2: inorder_traversal() is the ascending list of the values inserted and
\* not since deleted, each exactly once.
C2_InorderSorted == inorder_traversal(root) = SortedSeq(present)

\* a two-child delete has just completed on a tree of at least five values
C2_Witness ==
    /\ last.op = "delete" /\ last.out = "ok" /\ last.kind = "two"
    /\ Len(inorder_traversal(root)) >= 5

\* C3: after every AVLTree.insert / AVLTree.delete every node's stored height
\* is 1 + max(height(left), height(right)), with height(None) = 0.
C3_HeightInvariant ==
    \A n \in Subtrees(root) :
        /\ n.height = 1 + Max(get_height(n.left), get_height(n.right))
        /\ n.height = _get_tree_height(n)

\* an insert has just completed on a tree whose root has height 4
C3_Witness ==
    /\ last.op = "insert" /\ last.out = "ok"
    /\ root # None /\ root.height = 4

\* C4: insert(v) with v present raises ValueError and leaves the tree as it
\* was, with exactly one node holding v.
C4_DuplicateRejected ==
    [][(last'.op = "insert" /\ last'.arg \in present)
          => /\ last'.out = "ValueError"
             /\ root' = root
             /\ present' = present
             /\ Occurrences(inorder_traversal(root'), last'.arg) = 1]_vars

\* a duplicate insert has just been rejected on a tree of at least 3 values
C4_Witness ==
    /\ last.op = "insert" /\ last.out = "ValueError"
    /\ last.arg \in present
    /\ Cardinality(present) >= 3

\* C5: delete(v) on the empty tree, or with v absent, raises ValueError and
\* leaves the tree as it was.
C5_NotFoundDelete ==
    [][(last'.op = "delete" /\ last'.arg \notin present)
          => /\ last'.out = "ValueError"
             /\ root' = root
             /\ present' = present]_vars

\* a delete of an absent value has just been rejected on a non-empty tree
C5_Witness ==
    /\ last.op = "delete" /\ last.out = "ValueError"
    /\ last.arg \notin present
    /\ Cardinality(present) >= 3

\* C6: search(v) returns a node holding v exactly when v is present, and
\* None otherwise.
C6_SearchCorrect ==
    \A v \in 0..(MaxValEngine + 1) :
        LET n == search(root, v)
        IN  IF v \in present THEN n # None /\ n.value = v ELSE n = None

\* the value of a two-child node has just been deleted and others remain
C6_Witness ==
    /\ last.op = "delete" /\ last.out = "ok" /\ last.kind = "two"
    /\ search(root, last.arg) = None
    /\ \E v \in present : search(root, v) # None /\ search(root, v) # root

\* the tree after AVLTree.insert(v) immediately followed by AVLTree.delete(v)
InsertThenDelete(r, v) == _delete(_insert(r, v).tree, v)

\* C17: on every tree reached through insert / delete and for every value v
\* not present, insert(v) followed at once by delete(v) both return normally
\* and leave inorder_traversal() as it was before the insert.
C17_RoundTrip ==
    \A v \in (1..MaxValEngine) \ present :
        /\ ~_insert(root, v).raised
        /\ ~InsertThenDelete(root, v).raised
        /\ inorder_traversal(InsertThenDelete(root, v).tree)
               = inorder_traversal(root)

\* for some absent value the insert rotates it onto a node with two children
\* and the round trip gives the tree another shape than it had
C17_Witness ==
    \E v \in (1..MaxValEngine) \ present :
        /\ DeleteKind(_insert(root, v).tree, v) = "two"
        /\ Shape(InsertThenDelete(root, v).tree) # Shape(root)

\* C18: three distinct values inserted into the empty tree, in any of the
\* six orders, give root = median with height 2, root.left = minimum and
\* root.right = maximum, both leaves of height 1.
C18_ThreeValues ==
    (last.op = "insert" /\ last.out = "ok" /\ Cardinality(present) = 3)
        => LET s == SortedSeq(present)
           IN  root = [value |-> s[2], height |-> 2,
                       left |-> Node(s[1]), right |-> Node(s[3])]

\* the third value has just been inserted and lies between the other two
\* (the Left-Right and Right-Left orders)
C18_Witness ==
    /\ last.op = "insert" /\ last.out = "ok"
    /\ Cardinality(present) = 3
    /\ last.arg = SortedSeq(present)[2]
    /\ root.value = last.arg

\* the perfect binary search tree of the values lo..hi (hi - lo + 1 of the
\* form 2^k - 1), with the stored heights of a tree of k levels
RECURSIVE Perfect(_, _)
Perfect(lo, hi) ==
    IF lo > hi THEN None
    ELSE
        LET mid == (lo + hi) \div 2
            l == Perfect(lo, mid - 1)
            r == Perfect(mid + 1, hi)
        IN  [value |-> mid, left |-> l, right |-> r,
             height |-> 1 + Max(get_height(l), get_height(r))]

\* C19: inserting 1..n in ascending order, and n..1 in descending order, for
\* n = 2^k - 1 (k = 1..4) gives the perfect binary search tree of height k
\* with root 2^(k-1); for n = 15: root 8, left subtree 4 (2, 6; 1, 3, 5, 7),
\* right subtree 12 (10, 14; 9, 11, 13, 15).
C19_SequentialPerfect ==
    \A k \in 1..4 :
        LET n == 2^k - 1
        IN  (present = 1..n /\ last.op = "insert")
                => /\ root = Perfect(1, n)
                   /\ root.value = 2^(k-1)
                   /\ root.height = k
                   /\ _get_tree_height(root) = k
                   /\ n = 15 =>
                          preorder_traversal(root) =
                              <<8, 4, 2, 1, 3, 6, 5, 7,
                                12, 10, 9, 11, 14, 13, 15>>

\* the values 15 down to 1 have just been inserted in descending order
C19_Witness ==
    /\ present = 1..15
    /\ last.op = "insert" /\ last.out = "ok" /\ last.arg = 1

\* the position of x in sequence s
Pos(s, x) == CHOOSE i \in DOMAIN s : s[i] = x

\* s holds every value of tree r exactly once
ExactlyOnce(s, r) ==
    /\ Len(s) = Cardinality(Values(r))
    /\ {s[i] : i \in DOMAIN s} = Values(r)

\* the list returned by the traversal call just made: every value exactly
\* once; at every node the values of the left subtree come before those of
\* the right subtree, and the node's own value before both (preorder),
\* between them (inorder) or after both (postorder)
C20_Returned ==
    last.op \in TraversalOps =>
        LET s == last.out
        IN  /\ ExactlyOnce(s, root)
            /\ Values(root) = present
            /\ root = None => s = <<>>
            /\ (root # None /\ last.op = "preorder") => s[1] = root.value
            /\ (root # None /\ last.op = "postorder")
                   => s[Len(s)] = root.value
            /\ \A n \in Subtrees(root) :
                   /\ \A a \in Values(n.left), b \in Values(n.right) :
                          Pos(s, a) < Pos(s, b)
                   /\ \A a \in Values(n.left) :
                          IF last.op = "postorder"
                              THEN Pos(s, a) < Pos(s, n.value)
                              ELSE (Pos(s, n.value) < Pos(s, a))
                                       = (last.op = "preorder")
                   /\ \A b \in Values(n.right) :
                          IF last.op = "preorder"
                              THEN Pos(s, n.value) < Pos(s, b)
                              ELSE (Pos(s, b) < Pos(s, n.value))
                                       = (last.op = "postorder")

\* C20: on every reachable tree preorder_traversal, inorder_traversal and
\* postorder_traversal return every stored value exactly once in
\* node-left-right, left-node-right and left-right-node order (preorder
\* starts and postorder ends with the root value; the empty tree gives the
\* empty list), whatever was called before, and leave the tree unchanged.
C20_Traversals ==
    /\ []C20_Returned
    /\ [][last'.op \in TraversalOps
             => (root' = root /\ present' = present)]_vars

\* a postorder traversal of a tree of at least five values has just been
\* returned
C20_Witness ==
    /\ last.op = "postorder"
    /\ Len(last.out) >= 5
    /\ last.out[Len(last.out)] = root.value
    /\ last.out # inorder_traversal(root)

\* ---------------------------------------------------------- session claims
\* C7: in practice mode an "a v" (v absent) or "d v" (v present) command
\* issued while _find_unbalanced_node finds a node is rejected and leaves the
\* tree as it was; it is carried out only when no node is found.
C7_PracticeGating ==
    [][(/\ mode = "practice"
        /\ last'.op \in {"a", "d"}
        /\ (last'.op = "a") = (search(tree, last'.arg) = None))
          => IF _find_unbalanced_node(tree) # None
                 THEN last'.out = "unbalanced" /\ tree' = tree
                 ELSE /\ last'.out = "done"
                      /\ (last'.op = "a") = (search(tree', last'.arg) # None)]_vars

\* an "a" command has just been rejected in practice mode on an unbalanced
\* tree that does not hold its value
C7_Witness ==
    /\ mode = "practice"
    /\ last.op = "a" /\ last.out = "unbalanced"
    /\ search(tree, last.arg) = None
    /\ _find_unbalanced_node(tree) # None

\* C8: while the session has only handled commands in automatic mode, its
\* tree has the value at every position that the AVLTree given the same
\* values through insert / delete has.
C8_SameShapeAsEngine == auto_only => Shape(tree) = Shape(root)

\* C9: after every a / d command completed in automatic mode (session started
\* in automatic mode from the empty tree) every node's subtrees differ in
\* actual height (longest path) by at most 1.
C9_SessionBalanced ==
    (auto_only /\ last.op \in {"a", "d"})
        => \A n \in Subtrees(tree) :
               Abs(_get_tree_height(n.left) - _get_tree_height(n.right)) <= 1

\* C10: after every command of a session every node's stored height is
\* 1 + max(height(left), height(right)).
C10_SessionHeights ==
    \A n \in Subtrees(tree) :
        n.height = 1 + Max(get_height(n.left), get_height(n.right))

\* C11: in automatic mode every "rr v" / "rl v" command, with v present or
\* absent, is rejected and leaves the tree (shape, values, stored heights)
\* and the mode as they were.
C11_RotateDisabled ==
    [][(mode = "automatic" /\ last'.op \in {"rr", "rl"})
          => /\ last'.out = "disabled"
             /\ tree' = tree
             /\ mode' = mode]_vars

\* a rotate command naming a present node that has the child the rotation
\* would lift has just been rejected in automatic mode
C11_Witness ==
    /\ mode = "automatic"
    /\ last.op \in {"rr", "rl"} /\ last.out = "disabled"
    /\ search(tree, last.arg) # None
    /\ (IF last.op = "rr" THEN search(tree, last.arg).left
                          ELSE search(tree, last.arg).right) # None

\* C12: in practice mode an "rr v" / "rl v" command changes the tree only if
\* v is present and _is_rotation_needed approves the direction; otherwise the
\* tree (shape, values, stored heights) is left as it was.
C12_RotateValidated ==
    [][(mode = "practice" /\ last'.op \in {"rr", "rl"})
          => LET direction == IF last'.op = "rr" THEN "right" ELSE "left"
                 approved == /\ search(tree, last'.arg) # None
                             /\ _is_rotation_needed(tree, last'.arg, direction)
             IN  /\ tree' # tree => approved
                 /\ ~approved => (tree' = tree /\ last'.out # "done")]_vars

\* a rotation that could be carried out (the node has the child to lift) has
\* just been refused by the validator in practice mode
C12_Witness ==
    /\ mode = "practice"
    /\ last.op \in {"rr", "rl"} /\ last.out = "not needed"
    /\ (IF last.op = "rr" THEN search(tree, last.arg).left
                          ELSE search(tree, last.arg).right) # None

\* whether every node of t has subtrees whose stored heights and whose
\* longest paths differ by at most 1
WholeTreeBalanced(t) ==
    \A n \in Subtrees(t) :
        /\ Abs(get_balance(n)) <= 1
        /\ Abs(_get_tree_height(n.left) - _get_tree_height(n.right)) <= 1

\* the rotate commands that rebalance at z, in order: two for the Left-Right
\* and Right-Left cases, one for the Left-Left and Right-Right cases
C13_Plan(z) ==
    IF get_balance(z) > 1
        THEN IF get_balance(z.left) < 0
                 THEN <<[cmd |-> "rl", value |-> z.left.value],
                        [cmd |-> "rr", value |-> z.value]>>
                 ELSE <<[cmd |-> "rr", value |-> z.value]>>
        ELSE IF get_balance(z.right) > 0
                 THEN <<[cmd |-> "rr", value |-> z.right.value],
                        [cmd |-> "rl", value |-> z.value]>>
                 ELSE <<[cmd |-> "rl", value |-> z.value]>>

\* C13: in practice mode, when an insert (made on a balanced tree) leaves a
\* first unbalanced node z, the rotate commands of z's case are each accepted
\* when given one after the other ("rl" on z.left then "rr" on z for
\* Left-Right, "rr" on z.right then "rl" on z for Right-Left, the one matching
\* rotation on z otherwise), and afterwards the whole tree is balanced.
C13_TwoStepRotation ==
    LET z == _find_unbalanced_node(tree)
    IN  (mode = "practice" /\ last.op = "a" /\ last.out = "done" /\ z # None)
            => LET plan == C13_Plan(z)
                   s1 == process_command_rotate(tree, mode, plan[1].cmd,
                                                plan[1].value)
                   s2 == IF Len(plan) = 1 THEN s1
                         ELSE process_command_rotate(s1.tree, mode,
                                                     plan[2].cmd, plan[2].value)
               IN  /\ s1.out = "done"
                   /\ s2.out = "done"
                   /\ WholeTreeBalanced(s2.tree)

\* number of links from the root of t down to the node holding value
RECURSIVE Depth(_, _)
Depth(t, value) ==
    IF t = None \/ t.value = value THEN 0
    ELSE 1 + Depth(IF value < t.value THEN t.left ELSE t.right, value)

\* the nodes of t whose stored balance factor is beyond 1
Unbalanced(t) == {n \in Subtrees(t) : Abs(get_balance(n)) > 1}

\* C14 as stated: on every tree of a session _find_unbalanced_node returns
\* None exactly when no node has |balance| > 1, and otherwise a node with
\* |balance| > 1 such that no node with |balance| > 1 lies deeper in the tree.
C14_FindDeepest ==
    LET r == _find_unbalanced_node(tree)
    IN  /\ (r = None) = (Unbalanced(tree) = {})
        /\ r # None =>
               /\ r \in Unbalanced(tree)
               /\ \A n \in Unbalanced(tree) :
                      Depth(tree, n.value) <= Depth(tree, r.value)

\* C14 amended: _find_unbalanced_node returns None exactly when no node has
\* |balance| > 1, and otherwise the first node with |balance| > 1 in
\* post-order: no node below it is unbalanced, and none in the left subtree
\* of an ancestor it lies to the right of.
C14_FindFirstPostorder ==
    LET r == _find_unbalanced_node(tree)
    IN  /\ (r = None) = (Unbalanced(tree) = {})
        /\ r # None =>
               /\ r \in Unbalanced(tree)
               /\ Unbalanced(r.left) = {}
               /\ Unbalanced(r.right) = {}
               /\ \A a \in Subtrees(tree) :
                      (r.value > a.value /\ r \in Subtrees(a))
                          => Unbalanced(a.left) = {}

\* the node returned has an unbalanced node of another branch deeper than it
C14_Witness ==
    LET r == _find_unbalanced_node(tree)
    IN  /\ r # None
        /\ \E n \in Unbalanced(tree) :
               /\ Depth(tree, n.value) > Depth(tree, r.value)
               /\ n \notin Subtrees(r)

\* C15: the session starts in automatic mode; "config mode automatic" and
\* "config mode practice" set the mode to that value, any other mode value
\* leaves the mode as it was, and in every case the tree (shape, values,
\* stored heights) is unchanged, also when it is unbalanced.
C15_ModeSwitchPure ==
    /\ mode = "automatic"
    /\ [][last'.op = "config"
             => /\ tree' = tree
                /\ last'.out \in {"automatic", "practice", "invalid"}
                /\ mode' = IF last'.out = "invalid" THEN mode
                                                    ELSE last'.out]_vars

\* the mode has just been switched from practice to automatic on a tree with
\* an unbalanced node
C15_Witness ==
    /\ last.op = "config" /\ last.out = "automatic"
    /\ mode = "automatic"
    /\ ~auto_only
    /\ _find_unbalanced_node(tree) # None

\* the parent-child links of t, by value
Links(t) ==
    {<<n.value, "left", n.left.value>> :
        n \in {m \in Subtrees(t) : m.left # None}}
    \cup {<<n.value, "right", n.right.value>> :
        n \in {m \in Subtrees(t) : m.right # None}}

\* the value at the root of t, 0 for the empty tree
RootValue(t) == IF t = None THEN 0 ELSE t.value

\* t1 is t0 with v added as one new leaf and every link of t0 kept; the
\* stored heights of v and of its ancestors are 1 + max over their children,
\* every other node keeps the height it had
PlainInsert(t0, t1, v) ==
    /\ Values(t1) = Values(t0) \cup {v}
    /\ t0 # None => RootValue(t1) = RootValue(t0)
    /\ Links(t0) \subseteq Links(t1)
    /\ Cardinality(Links(t1) \ Links(t0)) = IF t0 = None THEN 0 ELSE 1
    /\ \A l \in Links(t1) \ Links(t0) :
           /\ l[3] = v
           /\ (l[2] = "left") = (v < l[1])
    /\ inorder_traversal(t1) = SortedSeq(Values(t1))
    /\ \A n \in Subtrees(t1) :
           IF v \in Values(n)
               THEN n.height = 1 + Max(get_height(n.left), get_height(n.right))
               ELSE n \in Subtrees(t0)

\* t1 is t0 after the plain BST deletion of v: the node w taken out is v's
\* node when it has at most one child (its child, if any, takes its place)
\* and the node of v's in-order successor s otherwise (v's node then holds
\* s); the stored heights of the former ancestors of w are 1 + max over
\* their children, every other node keeps its subtree as it was
PlainDelete(t0, t1, v) ==
    LET node == search(t0, v)
        two == node.left # None /\ node.right # None
        s == IF two THEN inorder_traversal(node.right)[1] ELSE v
        w == search(t0, s)
        c == IF w.left # None THEN w.left ELSE w.right
        rename(x) == IF x = v THEN s ELSE x
        kept == {l \in Links(t0) : l[1] # s /\ l[3] # s}
        bridged == IF c = None THEN {}
                   ELSE {<<l[1], l[2], c.value>> :
                            l \in {k \in Links(t0) : k[3] = s}}
    IN  /\ Values(t1) = Values(t0) \ {v}
        /\ RootValue(t1) = IF w = t0 THEN RootValue(c)
                                      ELSE rename(RootValue(t0))
        /\ Links(t1) = {<<rename(l[1]), l[2], rename(l[3])>> :
                            l \in kept \cup bridged}
        /\ \A n \in Subtrees(t1) :
               LET old == search(t0, IF n.value = s THEN v ELSE n.value)
               IN  IF s \in Values(old) /\ old # w
                       THEN n.height = 1 + Max(get_height(n.left),
                                               get_height(n.right))
                       ELSE n \in Subtrees(t0)

\* C16: in practice mode "a v" with v absent and "d v" with v present, given
\* while no node is unbalanced, never rotate: the tree afterwards is the
\* plain BST insertion (one new leaf, every existing link kept) or the plain
\* BST deletion (splice for at most one child, in-order successor copy for
\* two), with the stored heights recomputed along the path only.
C16_PracticePlainBST ==
    [][(/\ mode = "practice"
        /\ last'.op \in {"a", "d"}
        /\ _find_unbalanced_node(tree) = None
        /\ (last'.op = "a") = (search(tree, last'.arg) = None))
          => IF last'.op = "a" THEN PlainInsert(tree, tree', last'.arg)
                              ELSE PlainDelete(tree, tree', last'.arg)]_vars

\* a delete of a two-child node has just been carried out in practice mode
\* and left a node with |balance| > 1
C16_Witness ==
    /\ mode = "practice"
    /\ last.op = "d" /\ last.out = "done" /\ last.kind = "two"
    /\ _find_unbalanced_node(tree) # None

IntegerLiteral(word) ==
    \/ \A i \in 1..Len(word) : word[i] \in Digits
    \/ Len(word) = 2 /\ word[1] = "-" /\ word[2] \in Digits

\* a known command with one integer argument
WellFormed(cmd, args) ==
    /\ cmd \in {"a", "d", "rr", "rl"}
    /\ Len(args) = 1
    /\ IntegerLiteral(args[1])

\* C22: no exception escapes process_command (the ValueError of a
\* non-integer argument is caught, no rotation meets a missing child), and
\* a non-integer argument, an unknown command, "a v" with v present and
\* "d v" with v absent leave the tree and the mode as they were.
C22_NoEscapeNoChange ==
    [][/\ last'.out \notin {"ValueError", "AttributeError"}
       /\ (last'.out \in {"duplicate", "not found"})
              => (tree' = tree /\ mode' = mode)
       /\ (tree' # tree \/ mode' # mode)
              => \A cmd \in CommandWords, args \in ArgLists :
                     ~WellFormed(cmd, args) => ~process_command(cmd, args)]_vars

\* "a" or "d" has just been given a word that is no integer while the tree
\* held values in practice mode
C22_Witness ==
    /\ last.op \in {"a", "d"}
    /\ last.out = "Invalid number"
    /\ tree # None
    /\ mode = "practice"


\* _show_hint that names the rotation on the unbalanced node before the one
\* on its child in the double cases
_show_hint_node_first(t) ==
    LET z == _find_unbalanced_node(t)
    IN  IF z = None THEN <<>>
        ELSE IF get_balance(z) > 1
            THEN IF get_balance(z.left) >= 0
                     THEN <<[cmd |-> "rr", value |-> z.value]>>
                     ELSE <<[cmd |-> "rr", value |-> z.value],
                            [cmd |-> "rl", value |-> z.left.value]>>
        ELSE IF get_balance(z.right) <= 0
                 THEN <<[cmd |-> "rl", value |-> z.value]>>
                 ELSE <<[cmd |-> "rl", value |-> z.value],
                        [cmd |-> "rr", value |-> z.right.value]>>

\* the rotations 'hint' names for the first unbalanced node of t, in the
\* order it names them ("rotate right" is typed rr, "rotate left" rl); none
\* when no node is unbalanced
_show_hint(t) ==
    LET z == _find_unbalanced_node(t)
    IN  IF z = None THEN <<>>
        ELSE IF get_balance(z) > 1
            THEN IF get_balance(z.left) >= 0
                     THEN <<[cmd |-> "rr", value |-> z.value]>>
                     ELSE <<[cmd |-> "rl", value |-> z.left.value],
                            [cmd |-> "rr", value |-> z.value]>>
        ELSE IF get_balance(z.right) <= 0
                 THEN <<[cmd |-> "rl", value |-> z.value]>>
                 ELSE <<[cmd |-> "rr", value |-> z.right.value],
                        [cmd |-> "rl", value |-> z.value]>>

\* a practice session that asks for 'hint' and types the first rotation it
\* names, again and again, for at most n rotations, from tree t whose earlier
\* shapes are in seen: the tree it ends with, and whether it stopped because
\* a rotation was refused or brought back an earlier shape
RECURSIVE FollowHint(_, _, _)
FollowHint(t, n, seen) ==
    LET h == _show_hint(t)
        r == process_command_rotate(t, "practice", h[1].cmd, h[1].value)
    IN  IF h = <<>> \/ n = 0 THEN [tree |-> t, stuck |-> FALSE]
        ELSE IF r.out # "done" \/ Shape(r.tree) \in seen
            THEN [tree |-> r.tree, stuck |-> TRUE]
        ELSE FollowHint(r.tree, n - 1, seen \cup {Shape(r.tree)})

\* C23: in practice mode, after an insert or delete (made on a balanced tree)
\* that leaves an unbalanced node, asking for 'hint' after every rotation and
\* typing the first rotation it names reaches a tree without unbalanced node
\* within MaxHintRotations rotations, every rotation being accepted and none
\* bringing back a shape the tree had since the insert or delete.
C23_GuidedPracticeConverges ==
    (mode = "practice" /\ last.op \in {"a", "d"} /\ last.out = "done")
        => LET run == FollowHint(tree, MaxHintRotations, {Shape(tree)})
           IN  /\ ~run.stuck
               /\ _find_unbalanced_node(run.tree) = None


\* the iterations the loop of _balance_tree_with_steps makes from tree t,
\* followed for at most n of them
RECURSIVE LoopIterations(_, _)
LoopIterations(t, n) ==
    LET unbalanced_node == _find_unbalanced_node(t)
    IN  IF unbalanced_node = None \/ n = 0 THEN 0
        ELSE 1 + LoopIterations(
                     _balance_node_and_update_root_with_steps(t,
                                                              unbalanced_node),
                     n - 1)

\* the tree the balancing loop of an automatic "a value" / "d value" starts on
BeforeLoop(t, op, value) ==
    IF op = "a" THEN _insert_manual(t, value) ELSE _delete_manual(t, value)

\* C24: whenever an insert or delete is carried out in automatic mode, on any
\* tree a session can hold (also one left unbalanced by practice mode), the
\* loop of _balance_tree_with_steps ends after fewer than MaxLoopIterations
\* iterations and leaves no node with |balance| > 1.
C24_BalanceLoopTerminates ==
    [][(mode = "automatic" /\ last'.op \in {"a", "d"} /\ last'.out = "done")
          => /\ LoopIterations(BeforeLoop(tree, last'.op, last'.arg),
                               MaxLoopIterations) < MaxLoopIterations
             /\ Unbalanced(tree') = {}]_vars

\* automatic mode holds a tree that practice mode left with an unbalanced
\* node, and an insert is possible on which the loop makes two iterations
\* or more
C24_Witness ==
    /\ mode = "automatic"
    /\ Unbalanced(tree) # {}
    /\ \E value \in 1..MaxValCLI :
           /\ search(tree, value) = None
           /\ LoopIterations(BeforeLoop(tree, "a", value),
                             MaxLoopIterations) >= 2


\* the links of t that start at neither of the values in pair
LinksOutside(t, pair) == {l \in Links(t) : l[1] \notin pair}

\* C25: an accepted "rr v" / "rl v", on the root or on an inner node, leaves
\* the in-order sequence as it was (same values, ascending); the slot that
\* held v's node (the parent's left or right link, or the root) holds v's
\* former left (rr) or right (rl) child y, which has v's node as its child on
\* the other side; every node other than the two keeps its children.
C25_RotationFrame ==
    [][(last'.op \in {"rr", "rl"} /\ last'.out = "done")
          => LET z == search(tree, last'.arg)
                 y == IF last'.op = "rr" THEN z.left ELSE z.right
                 side == IF last'.op = "rr" THEN "right" ELSE "left"
                 slot == {l \in Links(tree) : l[3] = z.value}
             IN  /\ inorder_traversal(tree') = inorder_traversal(tree)
                 /\ inorder_traversal(tree') = SortedSeq(Values(tree'))
                 /\ IF z = tree THEN RootValue(tree') = y.value
                    ELSE /\ RootValue(tree') = RootValue(tree)
                         /\ \A l \in slot :
                                <<l[1], l[2], y.value>> \in Links(tree')
                 /\ <<y.value, side, z.value>> \in Links(tree')
                 /\ LinksOutside(tree', {z.value, y.value})
                        = (LinksOutside(tree, {z.value, y.value}) \ slot)
                          \cup {<<l[1], l[2], y.value>> : l \in slot}]_vars

\* a rotation has just been carried out on a node that was not the root
C25_Witness ==
    /\ last.op \in {"rr", "rl"}
    /\ last.out = "done"
    /\ Depth(tree, last.arg) >= 2


\* the nodes of t whose stored height is not 1 + max over their children
StaleHeights(t) ==
    {n \in Subtrees(t) :
        n.height # 1 + Max(get_height(n.left), get_height(n.right))}

\* C26: after an accepted "rr v" / "rl v" every node's stored height is
\* 1 + max of its children's stored heights (0 for a missing child), and so
\* the true height of its subtree, whatever the stored heights were before.
C26_HeightsAfterRotation ==
    [][(last'.op \in {"rr", "rl"} /\ last'.out = "done")
          => /\ StaleHeights(tree') = {}
             /\ \A n \in Subtrees(tree') : n.height = _get_tree_height(n)]_vars

\* practice mode holds a tree with a stale stored height (left by automatic
\* mode) on which a rotation is accepted
C26_Witness ==
    /\ mode = "practice"
    /\ StaleHeights(tree) # {}
    /\ \E cmd \in {"rr", "rl"}, value \in Values(tree) :
           LET r == process_command_rotate(tree, mode, cmd, value)
           IN  r.out = "done" /\ StaleHeights(r.tree) = {}


\* the nodes at which _insert(node, value) finds |balance| > 1 after its
\* height update (lines 77-78), each as it is at that moment, before any
\* rotation at it
RECURSIVE InsertImbalances(_, _)
InsertImbalances(node, value) ==
    IF node = None \/ value = node.value THEN {}
    ELSE
        LET child == IF value < node.value THEN node.left ELSE node.right
            r == _insert(child, value)
            n0 == IF value < node.value THEN [node EXCEPT !.left = r.tree]
                                        ELSE [node EXCEPT !.right = r.tree]
            n == [n0 EXCEPT !.height =
                      1 + Max(get_height(n0.left), get_height(n0.right))]
        IN  InsertImbalances(child, value)
                \cup (IF ~r.raised /\ Abs(get_balance(n)) > 1 THEN {n} ELSE {})

\* C27: on a tree built by insert and delete, wherever _insert finds
\* |balance| > 1 the case its value comparison selects is the case the
\* child-balance rule of _delete selects: when left-heavy,
\* value < node.left.value exactly when balance(node.left) >= 0; when
\* right-heavy, value > node.right.value exactly when
\* balance(node.right) <= 0.
C27_InsertCasesAgree ==
    \A value \in (1..MaxValRebalance) \ present :
        \A n \in InsertImbalances(root, value) :
            IF get_balance(n) > 1
                THEN (value < n.left.value) <=> (get_balance(n.left) >= 0)
                ELSE (value > n.right.value) <=> (get_balance(n.right) <= 0)

\* some insert finds an imbalance of the Left-Right or Right-Left case
C27_Witness ==
    \E value \in (1..MaxValRebalance) \ present :
        \E n \in InsertImbalances(root, value) :
            \/ get_balance(n) > 1 /\ value > n.left.value
            \/ get_balance(n) < -1 /\ value < n.right.value

\* C28: one insert call rotates (singly or doubly) at no more than one node
\* of the insertion path: the lowest of the nodes that the insertion, made
\* without any rebalancing, leaves with |balance| > 1; it rotates nowhere
\* when there is no such node.
C28_OneRotationPerInsert ==
    \A value \in (1..MaxValRebalance) \ present :
        LET found == {n.value : n \in InsertImbalances(root, value)}
            plain == {n.value : n \in Unbalanced(_insert_manual(root, value))}
            lowest == {v \in plain :
                          \A w \in plain : Depth(root, w) <= Depth(root, v)}
        IN  /\ Cardinality(found) <= 1
            /\ found = lowest

\* some insert puts two or more nodes of its path out of balance when made
\* without rebalancing, and finds an imbalance
C28_Witness ==
    \E value \in (1..MaxValRebalance) \ present :
        /\ Cardinality(Unbalanced(_insert_manual(root, value))) >= 2
        /\ InsertImbalances(root, value) # {}


\* the nodes from node down to the one holding value at which
\* _delete(node, value) finds |balance| > 1 after its height update
\* (lines 148-149), each as it is at that moment; value is in the subtree
RECURSIVE DeleteImbalances(_, _)
DeleteImbalances(node, value) ==
    IF node = None THEN {}
    ELSE IF value = node.value /\ (node.left = None \/ node.right = None)
        THEN {}
    ELSE
        LET n0 == IF value < node.value
                      THEN [node EXCEPT !.left = _delete(node.left, value).tree]
                  ELSE IF value > node.value
                      THEN [node EXCEPT
                                !.right = _delete(node.right, value).tree]
                  ELSE LET temp == get_min_value_node(node.right)
                       IN  [node EXCEPT
                                !.value = temp.value,
                                !.right = _delete(node.right,
                                                  temp.value).tree]
            n == [n0 EXCEPT !.height =
                      1 + Max(get_height(n0.left), get_height(n0.right))]
            below == IF value < node.value
                         THEN DeleteImbalances(node.left, value)
                     ELSE IF value > node.value
                         THEN DeleteImbalances(node.right, value)
                     ELSE {}
        IN  below \cup (IF Abs(get_balance(n)) > 1 THEN {n} ELSE {})

\* C29: delete(v) of a node with two children removes v, keeps every other
\* value exactly once, and puts the smallest value of the node's right
\* subtree (the in-order successor) in the node's place: unless a rotation at
\* the node or above it moves it, the successor is found where v was, above
\* the unchanged left subtree (which still holds the predecessor) and the
\* right subtree without the successor.
C29_SuccessorReplaces ==
    \A v \in present :
        DeleteKind(root, v) = "two"
            => LET node == search(root, v)
                   succ == SetMin(Values(node.right))
                   after == _delete(root, v).tree
                   now == search(after, succ)
               IN  /\ Values(after) = Values(root) \ {v}
                   /\ inorder_traversal(after) = SortedSeq(Values(root) \ {v})
                   /\ Occurrences(preorder_traversal(after), succ) = 1
                   /\ DeleteImbalances(root, v) = {}
                          => /\ Depth(after, succ) = Depth(root, v)
                             /\ Shape(now.left) = Shape(node.left)
                             /\ Values(now.right) = Values(node.right) \ {succ}

\* some delete meets a node with two children below the root whose
\* successor is not its right child, and rotates neither at it nor above
C29_Witness ==
    \E v \in present :
        /\ DeleteKind(root, v) = "two"
        /\ Depth(root, v) >= 1
        /\ search(root, v).right.left # None
        /\ DeleteImbalances(root, v) = {}


\* every node of t has the stored height 1 + max over its children
HeightsCorrect(t) == StaleHeights(t) = {}

\* C30: for a node z of a session tree whose right child y exists, with
\* correct stored heights below the two (z's and y's own may be stale),
\* left_rotate(z) returns y with z as its left child, y's former left subtree
\* as z's right subtree and the two outer subtrees where they were; the
\* in-order sequence is the same; z and then y carry the correct heights.
\* right_rotate(z) is the mirror image.
C30_RotateFunctions ==
    \A z \in Subtrees(tree) :
        /\ (/\ z.right # None
            /\ HeightsCorrect(z.left)
            /\ HeightsCorrect(z.right.left)
            /\ HeightsCorrect(z.right.right))
               => LET y == z.right
                      r == left_rotate(z)
                  IN  /\ r.value = y.value
                      /\ r.left.value = z.value
                      /\ r.left.left = z.left
                      /\ r.left.right = y.left
                      /\ r.right = y.right
                      /\ inorder_traversal(r) = inorder_traversal(z)
                      /\ HeightsCorrect(r)
                      /\ r.height = _get_tree_height(r)
                      /\ r.left.height = _get_tree_height(r.left)
        /\ (/\ z.left # None
            /\ HeightsCorrect(z.right)
            /\ HeightsCorrect(z.left.left)
            /\ HeightsCorrect(z.left.right))
               => LET y == z.left
                      r == right_rotate(z)
                  IN  /\ r.value = y.value
                      /\ r.right.value = z.value
                      /\ r.right.right = z.right
                      /\ r.right.left = y.right
                      /\ r.left = y.left
                      /\ inorder_traversal(r) = inorder_traversal(z)
                      /\ HeightsCorrect(r)
                      /\ r.height = _get_tree_height(r)
                      /\ r.right.height = _get_tree_height(r.right)

\* the session tree has a node z with a stale stored height, two children
\* and a right child with an inner subtree, whose left rotation makes z
\* lower than it was and changes the height of the subtree
C30_Witness ==
    \E z \in Subtrees(tree) :
        /\ z.left # None /\ z.right # None /\ z.right.left # None
        /\ z \in StaleHeights(tree)
        /\ HeightsCorrect(z.left)
        /\ HeightsCorrect(z.right.left)
        /\ HeightsCorrect(z.right.right)
        /\ left_rotate(z).left.height < z.height
        /\ left_rotate(z).height # z.height


\* the child of node that a rotation in the direction lifts
RequiredChild(node, direction) ==
    IF direction = "left" THEN node.right ELSE node.left

\* C31: in every session state, whenever _is_rotation_needed approves a
\* direction for a value, the node holding it has the child that rotation
\* lifts (the right child for "left", the left child for "right"), and no
\* rr / rl command ends in a dereference of a missing child.
C31_ValidatedExecutable ==
    /\ last.out # "AttributeError"
    /\ \A value \in Values(tree), direction \in {"left", "right"} :
           _is_rotation_needed(tree, value, direction)
               => RequiredChild(search(tree, value), direction) # None

\* practice mode holds a tree on which the validator approves a rotation as
\* the first step of a double rotation, on a node with only the child the
\* rotation lifts
C31_Witness ==
    /\ mode = "practice"
    /\ \E value \in Values(tree), direction \in {"left", "right"} :
           LET node == search(tree, value)
           IN  /\ _is_rotation_needed(tree, value, direction)
               /\ Abs(get_balance(node)) <= 1
               /\ RequiredChild(node, direction) # None
               /\ (node.left = None \/ node.right = None)


\* C32: when no node of the session tree has |balance| > 1,
\* _is_rotation_needed is False for every value of the tree and both
\* directions, and in practice mode every "rr v" / "rl v" is then refused
\* and leaves the tree as it was.
C32_BalancedNotRotatable ==
    /\ [](Unbalanced(tree) = {}
            => \A value \in Values(tree), direction \in {"left", "right"} :
                   ~_is_rotation_needed(tree, value, direction))
    /\ [][(/\ mode = "practice"
           /\ Unbalanced(tree) = {}
           /\ last'.op \in {"rr", "rl"})
              => (tree' = tree /\ last'.out \in {"not needed", "not found"})]_vars

\* in practice mode a rotation of a node that has the child to lift has just
\* been refused on a tree of three or more values without unbalanced node
C32_Witness ==
    /\ mode = "practice"
    /\ last.op \in {"rr", "rl"} /\ last.out = "not needed"
    /\ Unbalanced(tree) = {}
    /\ Cardinality(Values(tree)) >= 3
    /\ RequiredChild(search(tree, last.arg),
                     IF last.op = "rr" THEN "right" ELSE "left") # None


\* C33: whenever the session tree has an unbalanced node, the first rotation
\* _show_hint names (on the first unbalanced node in the Left-Left and
\* Right-Right cases, on its left or right child in the Left-Right and
\* Right-Left cases) is approved by _is_rotation_needed, and typed in practice
\* mode it is carried out.
C33_HintAccepted ==
    LET h == _show_hint(tree)
    IN  h # <<>>
            => /\ _is_rotation_needed(tree, h[1].value,
                                      IF h[1].cmd = "rr" THEN "right"
                                                         ELSE "left")
               /\ process_command_rotate(tree, "practice", h[1].cmd,
                                         h[1].value).out = "done"

\* practice mode holds a tree whose hint names two rotations, the first of
\* them on a child of the unbalanced node
C33_Witness ==
    /\ mode = "practice"
    /\ Len(_show_hint(tree)) = 2
    /\ _show_hint(tree)[1].value # _find_unbalanced_node(tree).value


\* C34: in practice mode, when 'hint' prints "rotate right v" (or "rotate
\* left v") as the rotation to make first, typing that command (the word
\* rotate, the direction, the number) carries out the right (left) rotation
\* on the node holding v.
C34_HintCommandExecutable ==
    [][(mode = "practice" /\ last'.op = "rotate")
          => \A direction \in {"left", "right"}, word \in Tokens :
                 LET typed == IF direction = "right" THEN "rr" ELSE "rl"
                     hint == _show_hint(tree)
                 IN  (/\ ~int(word).raised
                      /\ hint # <<>>
                      /\ hint[1] = [cmd |-> typed, value |-> int(word).value]
                      /\ process_command("rotate", <<direction, word>>))
                         => /\ tree' # tree
                            /\ tree' = process_command_rotate(
                                           tree, mode, typed,
                                           int(word).value).tree]_vars


\* ------------------------------------------------ the tree as linked objects
\* The operators above rebuild the tree as a value. Those below follow the
\* assignments of the source on a heap of Node objects: a function from
\* object identities to [value, left, right, height], where left and right
\* hold the identity of another object or NoObject for None.
NoObject == 0

\* the heap holding record tree t, every node under the identity of its value
ToHeap(t) ==
    [id \in Values(t) |->
        LET n == CHOOSE m \in Subtrees(t) : m.value = id
        IN  [value |-> n.value, height |-> n.height,
             left |-> IF n.left = None THEN NoObject ELSE n.left.value,
             right |-> IF n.right = None THEN NoObject ELSE n.right.value]]

RootObject(t) == IF t = None THEN NoObject ELSE t.value

\* the objects one link away from object id
ChildObjects(h, id) == {h[id].left, h[id].right} \ {NoObject}

\* the objects within n links of object id
RECURSIVE Reachable(_, _, _)
Reachable(h, id, n) ==
    IF id = NoObject THEN {}
    ELSE IF n = 0 THEN {id}
    ELSE {id} \cup UNION {Reachable(h, c, n - 1) : c \in ChildObjects(h, id)}

\* the left and right links of the objects in S that lead to object id
LinksInto(h, S, id) ==
    {<<p, side>> \in S \X {"left", "right"} :
        (IF side = "left" THEN h[p].left ELSE h[p].right) = id}

\* the objects reachable from root_object form a tree: nothing leads to the
\* root, and exactly one link leads to every other object
IsTree(h, root_object) ==
    LET S == Reachable(h, root_object, Cardinality(DOMAIN h))
    IN  \A id \in S :
            Cardinality(LinksInto(h, S, id)) = IF id = root_object THEN 0 ELSE 1

\* the record tree of the objects below id, followed for n links at most
RECURSIVE ToRecord(_, _, _)
ToRecord(h, id, n) ==
    IF id = NoObject \/ n = 0 THEN None
    ELSE [value |-> h[id].value, height |-> h[id].height,
          left |-> ToRecord(h, h[id].left, n - 1),
          right |-> ToRecord(h, h[id].right, n - 1)]

\* get_height / get_balance of an object
get_height_inplace(h, id) == IF id = NoObject THEN 0 ELSE h[id].height

get_balance_inplace(h, id) ==
    IF id = NoObject THEN 0
    ELSE get_height_inplace(h, h[id].left) - get_height_inplace(h, h[id].right)

\* node.height = 1 + max(get_height(node.left), get_height(node.right))
update_height_inplace(h, id) ==
    [h EXCEPT ![id].height = 1 + Max(get_height_inplace(h, h[id].left),
                                     get_height_inplace(h, h[id].right))]

\* left_rotate whose first assignment is left out: z keeps y as right child
left_rotate_inplace_aliasing(h, z) ==
    LET y == h[z].right
        h1 == [h EXCEPT ![y].left = z]
    IN  [heap |-> update_height_inplace(update_height_inplace(h1, z), y),
         node |-> y]

\* left_rotate(z): y = z.right; T2 = y.left; y.left = z; z.right = T2;
\* heights of z, then y; return y
left_rotate_inplace(h, z) ==
    LET y == h[z].right
        T2 == h[y].left
        h1 == [h EXCEPT ![y].left = z]
        h2 == [h1 EXCEPT ![z].right = T2]
    IN  [heap |-> update_height_inplace(update_height_inplace(h2, z), y),
         node |-> y]

\* right_rotate(z): y = z.left; T3 = y.right; y.right = z; z.left = T3;
\* heights of z, then y; return y
right_rotate_inplace(h, z) ==
    LET y == h[z].left
        T3 == h[y].right
        h1 == [h EXCEPT ![y].right = z]
        h2 == [h1 EXCEPT ![z].left = T3]
    IN  [heap |-> update_height_inplace(update_height_inplace(h2, z), y),
         node |-> y]


\* the four rebalancing cases at the end of _insert, on objects
insert_rebalance_inplace(h0, node, value) ==
    LET h == update_height_inplace(h0, node)
        balance == get_balance_inplace(h, node)
    IN  IF balance > 1 /\ value < h[h[node].left].value
            THEN right_rotate_inplace(h, node)
        ELSE IF balance < -1 /\ value > h[h[node].right].value
            THEN left_rotate_inplace(h, node)
        ELSE IF balance > 1 /\ value > h[h[node].left].value
            THEN LET r == left_rotate_inplace(h, h[node].left)
                 IN  right_rotate_inplace(
                         [r.heap EXCEPT ![node].left = r.node], node)
        ELSE IF balance < -1 /\ value < h[h[node].right].value
            THEN LET r == right_rotate_inplace(h, h[node].right)
                 IN  left_rotate_inplace(
                         [r.heap EXCEPT ![node].right = r.node], node)
        ELSE [heap |-> h, node |-> node]

\* AVLTree._insert on objects: the heap it leaves, the object it returns,
\* whether it raised; the new Node object takes the identity fresh
RECURSIVE _insert_inplace(_, _, _, _)
_insert_inplace(h, node, value, fresh) ==
    IF node = NoObject
        THEN [heap |-> (fresh :> [value |-> value, height |-> 1,
                                  left |-> NoObject, right |-> NoObject]) @@ h,
              node |-> fresh, raised |-> FALSE]
    ELSE IF value < h[node].value THEN
        LET r == _insert_inplace(h, h[node].left, value, fresh)
            b == insert_rebalance_inplace(
                     [r.heap EXCEPT ![node].left = r.node], node, value)
        IN  IF r.raised THEN [heap |-> h, node |-> node, raised |-> TRUE]
            ELSE [heap |-> b.heap, node |-> b.node, raised |-> FALSE]
    ELSE IF value > h[node].value THEN
        LET r == _insert_inplace(h, h[node].right, value, fresh)
            b == insert_rebalance_inplace(
                     [r.heap EXCEPT ![node].right = r.node], node, value)
        IN  IF r.raised THEN [heap |-> h, node |-> node, raised |-> TRUE]
            ELSE [heap |-> b.heap, node |-> b.node, raised |-> FALSE]
    ELSE [heap |-> h, node |-> node, raised |-> TRUE]

\* get_min_value_node on objects
RECURSIVE get_min_value_node_inplace(_, _)
get_min_value_node_inplace(h, node) ==
    IF h[node].left # NoObject
        THEN get_min_value_node_inplace(h, h[node].left)
        ELSE node

\* the four rebalancing cases at the end of _delete, on objects
delete_rebalance_inplace(h0, node) ==
    LET h == update_height_inplace(h0, node)
        balance == get_balance_inplace(h, node)
    IN  IF balance > 1 /\ get_balance_inplace(h, h[node].left) >= 0
            THEN right_rotate_inplace(h, node)
        ELSE IF balance > 1
            THEN LET r == left_rotate_inplace(h, h[node].left)
                 IN  right_rotate_inplace(
                         [r.heap EXCEPT ![node].left = r.node], node)
        ELSE IF balance < -1 /\ get_balance_inplace(h, h[node].right) <= 0
            THEN left_rotate_inplace(h, node)
        ELSE IF balance < -1
            THEN LET r == right_rotate_inplace(h, h[node].right)
                 IN  left_rotate_inplace(
                         [r.heap EXCEPT ![node].right = r.node], node)
        ELSE [heap |-> h, node |-> node]

\* AVLTree._delete on objects
RECURSIVE _delete_inplace(_, _, _)
_delete_inplace(h, node, value) ==
    IF node = NoObject
        THEN [heap |-> h, node |-> NoObject, raised |-> TRUE]
    ELSE IF value < h[node].value THEN
        LET r == _delete_inplace(h, h[node].left, value)
            b == delete_rebalance_inplace(
                     [r.heap EXCEPT ![node].left = r.node], node)
        IN  IF r.raised THEN [heap |-> h, node |-> node, raised |-> TRUE]
            ELSE [heap |-> b.heap, node |-> b.node, raised |-> FALSE]
    ELSE IF value > h[node].value THEN
        LET r == _delete_inplace(h, h[node].right, value)
            b == delete_rebalance_inplace(
                     [r.heap EXCEPT ![node].right = r.node], node)
        IN  IF r.raised THEN [heap |-> h, node |-> node, raised |-> TRUE]
            ELSE [heap |-> b.heap, node |-> b.node, raised |-> FALSE]
    ELSE IF h[node].left = NoObject
        THEN [heap |-> h, node |-> h[node].right, raised |-> FALSE]
    ELSE IF h[node].right = NoObject
        THEN [heap |-> h, node |-> h[node].left, raised |-> FALSE]
    ELSE
        LET temp == get_min_value_node_inplace(h, h[node].right)
            h1 == [h EXCEPT ![node].value = h[temp].value]
            r == _delete_inplace(h1, h1[node].right, h1[temp].value)
            b == delete_rebalance_inplace(
                     [r.heap EXCEPT ![node].right = r.node], node)
        IN  [heap |-> b.heap, node |-> b.node, raised |-> r.raised]


\* AVLTreeCLI._insert_manual on objects
RECURSIVE _insert_manual_inplace(_, _, _, _)
_insert_manual_inplace(h, node, value, fresh) ==
    IF node = NoObject
        THEN [heap |-> (fresh :> [value |-> value, height |-> 1,
                                  left |-> NoObject, right |-> NoObject]) @@ h,
              node |-> fresh]
    ELSE IF value < h[node].value THEN
        LET r == _insert_manual_inplace(h, h[node].left, value, fresh)
        IN  [heap |-> update_height_inplace(
                          [r.heap EXCEPT ![node].left = r.node], node),
             node |-> node]
    ELSE
        LET r == _insert_manual_inplace(h, h[node].right, value, fresh)
        IN  [heap |-> update_height_inplace(
                          [r.heap EXCEPT ![node].right = r.node], node),
             node |-> node]

\* AVLTreeCLI._delete_manual on objects
RECURSIVE _delete_manual_inplace(_, _, _)
_delete_manual_inplace(h, node, value) ==
    IF node = NoObject THEN [heap |-> h, node |-> node]
    ELSE IF value < h[node].value THEN
        LET r == _delete_manual_inplace(h, h[node].left, value)
        IN  [heap |-> update_height_inplace(
                          [r.heap EXCEPT ![node].left = r.node], node),
             node |-> node]
    ELSE IF value > h[node].value THEN
        LET r == _delete_manual_inplace(h, h[node].right, value)
        IN  [heap |-> update_height_inplace(
                          [r.heap EXCEPT ![node].right = r.node], node),
             node |-> node]
    ELSE IF h[node].left = NoObject THEN [heap |-> h, node |-> h[node].right]
    ELSE IF h[node].right = NoObject THEN [heap |-> h, node |-> h[node].left]
    ELSE
        LET temp == get_min_value_node_inplace(h, h[node].right)
            h1 == [h EXCEPT ![node].value = h[temp].value]
            r == _delete_manual_inplace(h1, h1[node].right, h1[temp].value)
        IN  [heap |-> update_height_inplace(
                          [r.heap EXCEPT ![node].right = r.node], node),
             node |-> node]

\* AVLTreeCLI._find_unbalanced_node on objects
RECURSIVE _find_unbalanced_node_inplace(_, _)
_find_unbalanced_node_inplace(h, node) ==
    IF node = NoObject THEN NoObject
    ELSE
        LET left_unbalanced == _find_unbalanced_node_inplace(h, h[node].left)
            right_unbalanced ==
                _find_unbalanced_node_inplace(h, h[node].right)
        IN  IF left_unbalanced # NoObject THEN left_unbalanced
            ELSE IF right_unbalanced # NoObject THEN right_unbalanced
            ELSE IF Abs(get_balance_inplace(h, node)) > 1 THEN node
            ELSE NoObject

\* the loop "while current and current != node" that looks for the parent
\* of node by descending from current by node.value: the parent it ends with
RECURSIVE find_parent_inplace(_, _, _, _)
find_parent_inplace(h, parent, current, node) ==
    IF current = NoObject \/ current = node THEN parent
    ELSE find_parent_inplace(h, current,
                             IF h[node].value < h[current].value
                                 THEN h[current].left
                                 ELSE h[current].right,
                             node)

\* "if parent is None: root = n; elif parent.left == node: parent.left = n;
\* else: parent.right = n": the heap and the root it leaves
update_parent_inplace(h, root_object, parent, node, n) ==
    IF parent = NoObject THEN [heap |-> h, root |-> n]
    ELSE IF h[parent].left = node
        THEN [heap |-> [h EXCEPT ![parent].left = n], root |-> root_object]
    ELSE [heap |-> [h EXCEPT ![parent].right = n], root |-> root_object]

\* AVLTreeCLI._balance_node_and_update_root_with_steps on objects
_balance_node_and_update_root_with_steps_inplace(h, root_object, target_node) ==
    LET parent == find_parent_inplace(h, NoObject, root_object, target_node)
        balance == get_balance_inplace(h, target_node)
        b == IF balance > 1 THEN
                 IF get_balance_inplace(h, h[target_node].left) < 0
                     THEN LET r == left_rotate_inplace(h, h[target_node].left)
                              h1 == [r.heap EXCEPT ![target_node].left = r.node]
                              u == update_parent_inplace(h1, root_object,
                                       parent, target_node, target_node)
                          IN  right_rotate_inplace(u.heap, target_node)
                     ELSE right_rotate_inplace(h, target_node)
             ELSE IF balance < -1 THEN
                 IF get_balance_inplace(h, h[target_node].right) > 0
                     THEN LET r == right_rotate_inplace(h,
                                                        h[target_node].right)
                              h1 == [r.heap EXCEPT
                                        ![target_node].right = r.node]
                              u == update_parent_inplace(h1, root_object,
                                       parent, target_node, target_node)
                          IN  left_rotate_inplace(u.heap, target_node)
                     ELSE left_rotate_inplace(h, target_node)
             ELSE [heap |-> h, node |-> target_node]
    IN  update_parent_inplace(b.heap, root_object, parent, target_node,
                              b.node)

\* AVLTreeCLI._balance_tree_with_steps on objects
RECURSIVE _balance_tree_with_steps_inplace(_, _)
_balance_tree_with_steps_inplace(h, root_object) ==
    LET unbalanced_node == _find_unbalanced_node_inplace(h, root_object)
        u == _balance_node_and_update_root_with_steps_inplace(
                 h, root_object, unbalanced_node)
    IN  IF unbalanced_node = NoObject THEN [heap |-> h, root |-> root_object]
        ELSE _balance_tree_with_steps_inplace(u.heap, u.root)

\* AVLTree._search on objects
RECURSIVE _search_inplace(_, _, _)
_search_inplace(h, node, value) ==
    IF node = NoObject THEN NoObject
    ELSE IF h[node].value = value THEN node
    ELSE IF value < h[node].value THEN _search_inplace(h, h[node].left, value)
    ELSE _search_inplace(h, h[node].right, value)

\* AVLTreeCLI._update_all_heights on objects
RECURSIVE _update_all_heights_inplace(_, _)
_update_all_heights_inplace(h, node) ==
    IF node = NoObject THEN h
    ELSE update_height_inplace(
             _update_all_heights_inplace(
                 _update_all_heights_inplace(h, h[node].left),
                 h[node].right),
             node)

\* AVLTreeCLI._rotate_node_and_update_parent on objects
_rotate_node_and_update_parent_inplace(h, root_object, node, direction) ==
    LET parent == find_parent_inplace(h, NoObject, root_object, node)
        r == IF direction = "left" THEN left_rotate_inplace(h, node)
                                   ELSE right_rotate_inplace(h, node)
    IN  update_parent_inplace(r.heap, root_object, parent, node, r.node)

\* the rotation of an accepted "rr value" / "rl value" on objects (lines
\* 205-222): the heap and the root it leaves
rotate_command_inplace(h, root_object, cmd, value) ==
    LET direction == IF cmd = "rr" THEN "right" ELSE "left"
        node == _search_inplace(h, root_object, value)
        r == IF direction = "left" THEN left_rotate_inplace(h, node)
                                   ELSE right_rotate_inplace(h, node)
        u == IF node = root_object THEN [heap |-> r.heap, root |-> r.node]
             ELSE _rotate_node_and_update_parent_inplace(h, root_object,
                                                         node, direction)
    IN  [heap |-> _update_all_heights_inplace(u.heap, u.root),
         root |-> u.root]


\* a session given any command over few values
NextObjects ==
    \/ \E value \in 1..MaxValObjects : CmdAdd(value)
    \/ \E value \in 1..MaxValObjects : CmdDelete(value)
    \/ \E cmd \in {"rr", "rl"}, value \in 1..MaxValObjects :
           CmdRotate(cmd, value)
    \/ \E value \in {"automatic", "practice"} : CmdConfigMode(value)
    \/ CmdReset

SpecObjects == Init /\ [][NextObjects]_vars

\* the objects below root_object in heap h form a tree that holds record
\* tree t
TreeOf(h, root_object, t) ==
    /\ IsTree(h, root_object)
    /\ ToRecord(h, root_object, Cardinality(DOMAIN h)) = t

\* C35: every engine operation and every session command, carried out on the
\* Node objects of a tree, leaves objects that form a tree again (no object
\* reached by two paths or from itself, one parent link for every object but
\* the root): AVLTree.insert and delete, "a" and "d" in practice and in
\* automatic mode with its rebalancing loop, and accepted "rr" / "rl"
\* rotations. The tree of objects is the tree the operators on values give.
C35_TreeShape ==
    /\ TreeOf(ToHeap(root), RootObject(root), root)
    /\ TreeOf(ToHeap(tree), RootObject(tree), tree)
    /\ \A value \in (1..MaxValObjects) \ Values(root) :
           LET r == _insert_inplace(ToHeap(root), RootObject(root), value,
                                    value)
           IN  TreeOf(r.heap, r.node, _insert(root, value).tree)
    /\ \A value \in Values(root) :
           LET r == _delete_inplace(ToHeap(root), RootObject(root), value)
           IN  TreeOf(r.heap, r.node, _delete(root, value).tree)
    /\ \A value \in (1..MaxValObjects) \ Values(tree) :
           LET r == _insert_manual_inplace(ToHeap(tree), RootObject(tree),
                                           value, value)
               b == _balance_tree_with_steps_inplace(r.heap, r.node)
           IN  /\ TreeOf(r.heap, r.node, _insert_manual(tree, value))
               /\ TreeOf(b.heap, b.root,
                         _insert_with_auto_balance(tree, value))
    /\ \A value \in Values(tree) :
           LET r == _delete_manual_inplace(ToHeap(tree), RootObject(tree),
                                           value)
               b == _balance_tree_with_steps_inplace(r.heap, r.node)
           IN  /\ TreeOf(r.heap, r.node, _delete_manual(tree, value))
               /\ TreeOf(b.heap, b.root,
                         _delete_with_auto_balance(tree, value))
    /\ \A cmd \in {"rr", "rl"}, value \in Values(tree) :
           LET p == process_command_rotate(tree, "practice", cmd, value)
               u == rotate_command_inplace(ToHeap(tree), RootObject(tree),
                                           cmd, value)
           IN  p.out = "done" => TreeOf(u.heap, u.root, p.tree)

\* practice mode holds a tree on which a left rotation is accepted for a
\* node whose right child has a left subtree, the subtree that changes its
\* parent
C35_Witness ==
    /\ mode = "practice"
    /\ \E value \in Values(tree) :
           /\ process_command_rotate(tree, mode, "rl", value).out = "done"
           /\ search(tree, value).right.left # None

\* ------------------------------------------------- height against node count
\* the values test_worst_case_avl_pattern_14_nodes inserts, in its order
worst_case_avl_pattern_14_nodes ==
    <<1, 2, 3, 4, 5, 6, 7, 8, 9, 10, 11, 12, 13, 14>>

\* the values test_fibonacci_sequence_insertion_20_nodes inserts, in its
\* order
fibonacci_sequence_insertion_20_nodes ==
    <<13, 8, 21, 5, 11, 17, 25, 3, 7, 9, 15, 19, 23, 27, 1, 4, 6, 10, 12, 14>>

\* the twelve values 31..42 in the level order of the sparsest balanced
\* tree of height 5, then two values more
sparse_14_nodes ==
    <<38, 35, 41, 33, 37, 40, 42, 32, 34, 36, 39, 31, 43, 44>>

\* the twenty values 51..70 in the level order of the sparsest balanced
\* tree of height 6
sparse_20_nodes ==
    <<63, 58, 68, 55, 61, 66, 70, 53, 57, 60, 62, 65, 67, 69, 52, 54, 56, 59,
      64, 51>>

HeightScripts ==
    <<worst_case_avl_pattern_14_nodes, fibonacci_sequence_insertion_20_nodes,
      sparse_14_nodes, sparse_20_nodes>>

ScriptValues(script) == {script[i] : i \in DOMAIN script}

\* the positions of script whose value the tree does not hold
HeightPending(script) == {i \in DOMAIN script : script[i] \notin present}

\* the tree holds values of script only, taken in the script's order but
\* for fewer than HeightWindow values left out on the way
OnScript(script) ==
    /\ present \subseteq ScriptValues(script)
    /\ \A i \in DOMAIN script \ HeightPending(script) :
           Cardinality({j \in HeightPending(script) : j < i}) < HeightWindow

\* the pending positions the next insert may take its value from
HeightNext(script) ==
    {i \in HeightPending(script) :
        Cardinality({j \in HeightPending(script) : j < i}) < HeightWindow}

\* an AVLTree given the values of one of HeightScripts in order with insert,
\* and the value just inserted taken out again with delete
NextHeight ==
    \/ \E s \in DOMAIN HeightScripts :
           /\ OnScript(HeightScripts[s])
           /\ \E i \in HeightNext(HeightScripts[s]) :
                  Insert(HeightScripts[s][i])
    \/ /\ last.op = "insert" /\ last.out = "ok"
       /\ Delete(last.arg)

SpecHeight == Init /\ [][NextHeight]_vars

\* the fewest values a balanced tree of height h holds
RECURSIVE N(_)
N(h) == IF h = 0 THEN 0 ELSE IF h = 1 THEN 1 ELSE N(h - 1) + N(h - 2) + 1

\* the tree after insert has been called with each value of script in turn
RECURSIVE InsertAll(_, _)
InsertAll(node, script) ==
    IF script = <<>> THEN node
    ELSE InsertAll(_insert(node, Head(script)).tree, Tail(script))

=============================================================================
